---- MODULE Spec2Model ----
(***************************************************************************)
(* Model of the Tunnel Vision poker engine: the card model                 *)
(* (utils/models.py), the hand evaluator, the equity simulator and the     *)
(* strength reporter (ml/src/equity.py), the decision engine               *)
(* (ml/src/decision_engine.py), the label parser (cv/src/card_parser.py)   *)
(* and the Streamlit pages (app.py, views/).                               *)
(*                                                                         *)
(* A card is a record [rank, suit] of two strings, a card list is a        *)
(* sequence, a HandScore is a record [category, ranks].  Python's None is  *)
(* NoRank (for an int) and NoScore (for a HandScore).  A float that the    *)
(* code computes as a quotient is kept as the exact fraction [num, den];   *)
(* a float that the decision engine compares with its thresholds is kept   *)
(* with its rounding error, as a record [c, d, n].                         *)
(***************************************************************************)
EXTENDS Integers, Sequences, FiniteSets, TLC

VARIABLES
    e_cards,    \* evaluator: the card list passed in
    e_op,       \* evaluator: the call made on it and how it ended
    e_score,    \* evaluator: the HandScore returned
    e_label,    \* evaluator: the label of the score
    e_other,    \* evaluator: a second hand, scored to compare with
    e_oscore,   \* evaluator: its HandScore
    e_cmp,      \* evaluator: outcome of e_score < e_oscore, ==, >
    q_state,    \* estimate_equity: the PokerGameState passed in
    q_opponents,\* estimate_equity: argument opponents
    q_trials,   \* estimate_equity: argument trials
    q_pc,       \* estimate_equity: "call", "loop", "scored", "done", "failed"
    q_run_all,  \* estimate_equity: local run_all
    q_done,     \* estimate_equity: scenarios taken from samples so far
    q_wins,     \* estimate_equity: local wins
    q_ties,     \* estimate_equity: local ties
    q_scenario, \* estimate_equity: locals of the loop body, dead at loop head
    q_estimate, \* estimate_equity: the EquityEstimate returned, or the error
    w_state,    \* estimate_equity on the 52-card deck: the PokerGameState
    w_opponents,\* estimate_equity on the 52-card deck: argument opponents
    w_trials,   \* estimate_equity on the 52-card deck: argument trials
    w_pc,       \* estimate_equity on the 52-card deck: "call", "planned", "failed"
    w_plan,     \* estimate_equity on the 52-card deck: total_combos, run_all, actual_trials
    m_hand,     \* describe_made_hand: argument hand
    m_community,\* describe_made_hand: argument community
    m_samples,  \* describe_made_hand: argument percentile_samples
    m_pc,       \* describe_made_hand: "call", "loop", "scored", "done"
    m_score,    \* describe_made_hand: local score
    m_run_all,  \* _estimate_percentile_against_other_hands: local run_all
    m_done,     \* _estimate_percentile_against_other_hands: combos taken so far
    m_better,   \* _estimate_percentile_against_other_hands: local better
    m_ties,     \* _estimate_percentile_against_other_hands: local ties
    m_opp,      \* _estimate_percentile_against_other_hands: combo and opp_score
    m_result,   \* describe_made_hand: the HandStrengthDetails returned, or None
    p_strength, \* _apply_policy: argument strength
    p_pot_odds, \* _apply_policy: argument pot_odds
    p_strategy, \* _apply_policy: argument strategy
    p_pc,       \* _apply_policy: "call", "done"
    p_result,   \* _apply_policy: the (action, confidence) returned
    d_state,    \* recommend_action: the PokerGameState passed in
    d_context,  \* recommend_action: the DecisionContext passed in
    d_pc,       \* recommend_action: "call", "estimated", "done"
    d_call,     \* recommend_action: the arguments passed to estimate_equity
    d_equity_info, \* recommend_action: local equity_info
    d_strength, \* recommend_action: local strength
    d_result,   \* recommend_action: the DecisionResult returned
    k_call,     \* utils/models.py: the last call made, with its arguments
    k_out,      \* utils/models.py: what that call returned, or the error
    k_hand,     \* utils/models.py: the Hand the caller holds
    k_community,\* utils/models.py: the Community the caller holds
    l_label,    \* parse_card_label: argument label, a list of characters
    l_pc,       \* parse_card_label: "call", "done"
    l_card,     \* parse_card_label: the Card returned, or None
    s_session,  \* Streamlit: st.session_state
    s_run,      \* Streamlit: the last run of the script, what it was given and what it showed
    a_state,    \* caller: the PokerGameState it passes to every call
    a_given,    \* caller: that state as it was constructed
    a_pc,       \* caller: "idle", or the function it is inside
    a_calls,    \* caller: the number of calls that have ended
    a_seen,     \* caller: the calls that ran in exhaustive mode, with their results
    a_repeat,   \* caller: a call in exhaustive mode was made a second time
    a_last      \* caller: the function that ended last, and whether it raised

evalVars == <<e_cards, e_op, e_score, e_label, e_other, e_oscore, e_cmp>>

equityVars == <<q_state, q_opponents, q_trials, q_pc, q_run_all, q_done,
                q_wins, q_ties, q_scenario, q_estimate>>

wholeVars == <<w_state, w_opponents, w_trials, w_pc, w_plan>>

madeVars == <<m_hand, m_community, m_samples, m_pc, m_score, m_run_all, m_done,
              m_better, m_ties, m_opp, m_result>>

policyVars == <<p_strength, p_pot_odds, p_strategy, p_pc, p_result>>

decisionVars == <<d_state, d_context, d_pc, d_call, d_equity_info, d_strength, d_result>>

modelVars == <<k_call, k_out, k_hand, k_community>>

engineVars == <<evalVars, equityVars, wholeVars, madeVars, policyVars, decisionVars>>

parseVars == <<l_label, l_pc, l_card>>

sessionVars == <<s_session, s_run>>

callerVars == <<a_state, a_given, a_pc, a_calls, a_seen, a_repeat, a_last>>

laterVars == <<modelVars, parseVars, sessionVars, callerVars>>

\* what a call of one function leaves alone: the variables of the others
notEvalVars == <<equityVars, wholeVars, madeVars, policyVars, decisionVars, laterVars>>

notEquityVars == <<evalVars, wholeVars, madeVars, policyVars, decisionVars, laterVars>>

notWholeVars == <<evalVars, equityVars, madeVars, policyVars, decisionVars, laterVars>>

notMadeVars == <<evalVars, equityVars, wholeVars, policyVars, decisionVars, laterVars>>

notPolicyVars == <<evalVars, equityVars, wholeVars, madeVars, decisionVars, laterVars>>

notDecisionVars == <<evalVars, equityVars, wholeVars, madeVars, policyVars, laterVars>>

notModelVars == <<engineVars, parseVars, sessionVars, callerVars>>

notParseVars == <<engineVars, modelVars, sessionVars, callerVars>>

notSessionVars == <<engineVars, modelVars, parseVars, callerVars>>

vars == <<engineVars, laterVars>>

\* ------------------------------------------------------------------------
\* Bounds of the model
\* ------------------------------------------------------------------------

\* suit patterns tried for each multiset of five ranks (pattern 0 is a flush)
NumPatterns == 2

\* the deck of the bounded runs holds the DeckCards highest cards of hearts
\* and diamonds
DeckCards == 12

\* game states tried by the equity runs
NumDeals == 2

\* arguments of estimate_equity: opponents in 0..MaxOpponents, trials in
\* 0..MaxTrials
MaxOpponents == 3

MaxTrials == 20

\* a sampled run is followed for at most MaxSampled trials of at most
\* MaxSampledCards cards each
MaxSampled == 1

\* argument percentile_samples of describe_made_hand: 0..MaxPercentileSamples
MaxPercentileSamples == 22

MaxSampledCards == 2

\* ------------------------------------------------------------------------
\* utils/models.py : Card and the deck
\* ------------------------------------------------------------------------

valid_ranks == <<"2", "3", "4", "5", "6", "7", "8", "9", "10", "J", "Q", "K", "A">>

valid_suits == <<"Hearts", "Diamonds", "Clubs", "Spades">>

Card(rank, suit) == [rank |-> rank, suit |-> suit]

Range(s) == {s[i] : i \in DOMAIN s}

does_contain_duplicate(list) == Cardinality(Range(list)) # Len(list)

\* [Card(rank, suit) for suit in suits for rank in ranks]: all 52 cards
whole_deck ==
    LET ranks == valid_ranks
        suits == valid_suits
    IN [i \in 1..(Len(suits) * Len(ranks)) |->
           Card(ranks[((i - 1) % Len(ranks)) + 1], suits[((i - 1) \div Len(ranks)) + 1])]

\* [Card(rank, suit) for suit in suits for rank in ranks]
\* cut to the cards of the bounded runs: of the ranks from the ace down, the
\* heart and then the diamond, DeckCards cards in all
get_full_deck ==
    LET ranks == valid_ranks
        suits == valid_suits
        deck == whole_deck
        dealt(i) == LET r == ((i - 1) % Len(ranks)) + 1
                        s == ((i - 1) \div Len(ranks)) + 1
                    IN s <= 2 /\ 2 * (Len(ranks) - r) + s <= DeckCards
        kept(card) == \E i \in DOMAIN deck : deck[i] = card /\ dealt(i)
    IN SelectSeq(deck, kept)

\* get_remaining_cards that hands back the whole deck
get_remaining_cards_wholeDeck(used) == get_full_deck

\* [card for card in deck if card not in used]
get_remaining_cards(used) ==
    LET in_deck(card) == card \notin Range(used)
    IN SelectSeq(get_full_deck, in_deck)

\* len(self.cards) != 2 is refused by Hand
HandSize == 2

\* len(self.cards) > 5 is refused by Community
MaxCommunity == 5

\* the longest card list the program hands to evaluate_best_hand: the hole
\* cards and a full board
MaxCards == HandSize + MaxCommunity

\* Hand.__post_init__ accepts the card list
HandOk(cs) == Len(cs) = HandSize /\ ~does_contain_duplicate(cs)

\* Community.__post_init__ accepts the card list
CommunityOk(cs) == Len(cs) <= MaxCommunity /\ ~does_contain_duplicate(cs)

\* PokerGameState.__post_init__ that refuses an empty stack
PokerGameStateOk_positiveChips(hand, community, chips, pot) ==
    /\ chips > 0
    /\ pot >= 0
    /\ ~does_contain_duplicate(hand.cards \o community.cards)

\* PokerGameState.__post_init__ accepts the fields
PokerGameStateOk(hand, community, chips, pot) ==
    /\ chips >= 0
    /\ pot >= 0
    /\ ~does_contain_duplicate(hand.cards \o community.cards)

PokerGameState(hand, community, chips, pot) ==
    [player_hand |-> hand, community |-> community,
     player_chips |-> chips, pot_size |-> pot]

\* ------------------------------------------------------------------------
\* Helpers for Python built-ins
\* ------------------------------------------------------------------------

SetMax(S) == CHOOSE x \in S : \A y \in S : y <= x

SetMin(S) == CHOOSE x \in S : \A y \in S : x <= y

\* sorted(S) of a set of integers, ascending
RECURSIVE SortedAsc(_)
SortedAsc(S) ==
    IF S = {} THEN <<>>
    ELSE LET m == SetMin(S) IN <<m>> \o SortedAsc(S \ {m})

\* insertion of x into a descending sequence
RECURSIVE InsertDesc(_, _)
InsertDesc(x, s) ==
    IF s = <<>> THEN <<x>>
    ELSE IF x >= Head(s) THEN <<x>> \o s
    ELSE <<Head(s)>> \o InsertDesc(x, Tail(s))

\* sorted(seq) where sorted(seq, reverse=True) is meant: the order of the
\* list is kept as it comes
SortedDesc_unsorted(s) == s

\* sorted(seq, reverse=True) of a sequence of integers
RECURSIVE SortedDesc(_)
SortedDesc(s) ==
    IF s = <<>> THEN <<>>
    ELSE InsertDesc(Head(s), SortedDesc(Tail(s)))

\* seq[:n]
Take(s, n) == SubSeq(s, 1, IF n < Len(s) THEN n ELSE Len(s))

\* seq[a:b], positions counted from 0 and cut at the end of seq
Slice(s, a, b) == SubSeq(s, a + 1, IF b < Len(s) THEN b ELSE Len(s))

\* itertools.combinations(s, k): the k-element subsequences, in
\* lexicographic order of their positions
RECURSIVE combinations(_, _)
combinations(s, k) ==
    IF k = 0 THEN << <<>> >>
    ELSE IF Len(s) < k THEN <<>>
    ELSE LET withHead == combinations(Tail(s), k - 1)
             without  == combinations(Tail(s), k)
         IN [i \in 1..Len(withHead) |-> <<Head(s)>> \o withHead[i]] \o without

\* ------------------------------------------------------------------------
\* ml/src/equity.py : hand evaluator
\* ------------------------------------------------------------------------

RANK_ORDER ==
    [r \in Range(valid_ranks) |->
        CASE r = "2" -> 2 [] r = "3" -> 3 [] r = "4" -> 4 [] r = "5" -> 5
          [] r = "6" -> 6 [] r = "7" -> 7 [] r = "8" -> 8 [] r = "9" -> 9
          [] r = "10" -> 10 [] r = "J" -> 11 [] r = "Q" -> 12
          [] r = "K" -> 13 [] r = "A" -> 14]

\* None where the code expects a rank
NoRank == 0

\* None where the code expects a HandScore
NoScore == [category |-> -1, ranks |-> <<>>]

HandScore(category, ranks) == [category |-> category, ranks |-> ranks]

\* tuple.__lt__ : the first differing element decides, a proper prefix is
\* smaller
RECURSIVE TupleLess(_, _)
TupleLess(a, b) ==
    IF b = <<>> THEN FALSE
    ELSE IF a = <<>> THEN TRUE
    ELSE IF Head(a) # Head(b) THEN Head(a) < Head(b)
    ELSE TupleLess(Tail(a), Tail(b))

\* an order on the category alone
HandScoreLess_categoryOnly(a, b) == a.category < b.category

\* HandScore.__lt__ generated by dataclass(order=True):
\* (category, ranks) < (other.category, other.ranks)
HandScoreLess(a, b) ==
    IF a.category # b.category THEN a.category < b.category
    ELSE TupleLess(a.ranks, b.ranks)

\* HandScore.__gt__
HandScoreGreater(a, b) == HandScoreLess(b, a)

\* HandScore.__eq__ generated by dataclass
HandScoreEq(a, b) == a.category = b.category /\ a.ranks = b.ranks

\* the loop of _straight_high over zip(unique, unique[1:]), from pair i on
RECURSIVE StraightLoop(_, _, _, _)
StraightLoop(unique, i, run, best) ==
    IF i >= Len(unique) THEN best
    ELSE IF unique[i + 1] - unique[i] = 1
         THEN StraightLoop(unique, i + 1, run + 1,
                           IF run + 1 >= 5 THEN unique[i + 1] ELSE best)
         ELSE StraightLoop(unique, i + 1, 1, best)

\* _straight_high without the ace counted low
_straight_high_aceHighOnly(ranks) ==
    LET unique == SortedAsc(Range(ranks))
        best   == StraightLoop(unique, 1, 1, NoRank)
    IN IF best = 1 THEN 5 ELSE best

_straight_high(ranks) ==
    LET uniq0  == Range(ranks)
        unique == SortedAsc(IF 14 \in uniq0 THEN uniq0 \cup {1} ELSE uniq0)
        best   == StraightLoop(unique, 1, 1, NoRank)
    IN IF best = 1 THEN 5 ELSE best

\* Counter(ranks)
Counter(ranks) ==
    [r \in Range(ranks) |-> Cardinality({i \in DOMAIN ranks : ranks[i] = r})]

\* the ranks that occur exactly cnt times
RanksWithCount(counts, cnt) == {r \in DOMAIN counts : counts[r] = cnt}

\* counts.values(), in the insertion order of the Counter (ranks descending)
CounterValues(counts) ==
    LET keys == SortedDesc(SortedAsc(DOMAIN counts))
    IN [i \in DOMAIN keys |-> counts[keys[i]]]

\* the full-house test on the counts as the Counter lists them, unsorted
is_full_house_unsorted(counts) == Take(CounterValues(counts), 2) = <<3, 2>>

\* sorted(counts.values(), reverse=True)[:2] == [3, 2]
is_full_house(counts) == Take(SortedDesc(CounterValues(counts)), 2) = <<3, 2>>

_score_five_cards(cards) ==
    LET ranks == SortedDesc([i \in DOMAIN cards |-> RANK_ORDER[cards[i].rank]])
        suits == [i \in DOMAIN cards |-> cards[i].suit]
        counts == Counter(ranks)
        is_flush == Cardinality(Range(suits)) = 1
        straight_high == _straight_high(ranks)
        max_count == SetMax(Range(CounterValues(counts)))
        pair_ranks == SortedDesc(SortedAsc(RanksWithCount(counts, 2)))
        singles == SortedDesc(SortedAsc(RanksWithCount(counts, 1)))
    IN
    IF is_flush /\ straight_high # NoRank
        THEN HandScore(8, <<straight_high>>)
    ELSE IF max_count = 4
        THEN HandScore(7, <<SetMax(RanksWithCount(counts, 4)),
                            SetMax(RanksWithCount(counts, 1))>>)
    ELSE IF is_full_house(counts)
        THEN HandScore(6, <<SetMax(RanksWithCount(counts, 3)),
                            SetMax(RanksWithCount(counts, 2))>>)
    ELSE IF is_flush
        THEN HandScore(5, SortedDesc(ranks))
    ELSE IF straight_high # NoRank
        THEN HandScore(4, <<straight_high>>)
    ELSE IF max_count = 3
        THEN HandScore(3, <<SetMax(RanksWithCount(counts, 3))>> \o Take(singles, 2))
    ELSE IF Len(pair_ranks) >= 2
        THEN HandScore(2, <<pair_ranks[1], pair_ranks[2],
                            SetMax(RanksWithCount(counts, 1))>>)
    ELSE IF Len(pair_ranks) = 1
        THEN HandScore(1, <<pair_ranks[1]>> \o Take(singles, 3))
    ELSE HandScore(0, SortedDesc(ranks))

\* the loop of evaluate_best_hand with the comparison reversed
RECURSIVE BestLoop_keepsLower(_, _, _)
BestLoop_keepsLower(combos, i, best) ==
    IF i > Len(combos) THEN best
    ELSE LET score == _score_five_cards(combos[i])
         IN BestLoop_keepsLower(combos, i + 1,
                                IF best = NoScore \/ HandScoreLess(score, best)
                                THEN score ELSE best)

\* the loop of evaluate_best_hand over the 5-card combinations, from combo i on
RECURSIVE BestLoop(_, _, _)
BestLoop(combos, i, best) ==
    IF i > Len(combos) THEN best
    ELSE LET score == _score_five_cards(combos[i])
         IN BestLoop(combos, i + 1,
                     IF best = NoScore \/ HandScoreGreater(score, best)
                     THEN score ELSE best)

\* evaluate_best_hand: [ok |-> FALSE] is the raised ValueError
evaluate_best_hand(cards) ==
    IF Len(cards) < 5
    THEN [ok |-> FALSE, score |-> NoScore]
    ELSE [ok |-> TRUE, score |-> BestLoop(combinations(cards, 5), 1, NoScore)]

HAND_CATEGORY_LABELS ==
    [c \in 0..8 |->
        CASE c = 8 -> "Straight Flush" [] c = 7 -> "Four of a Kind"
          [] c = 6 -> "Full House" [] c = 5 -> "Flush" [] c = 4 -> "Straight"
          [] c = 3 -> "Three of a Kind" [] c = 2 -> "Two Pair"
          [] c = 1 -> "One Pair" [] c = 0 -> "High Card"]

\* the label looked up by category alone
_score_to_label_categoryOnly(score) ==
    IF score.category \in DOMAIN HAND_CATEGORY_LABELS
    THEN HAND_CATEGORY_LABELS[score.category]
    ELSE "Unknown"

_score_to_label(score) ==
    IF score.category = 8 /\ score.ranks # <<>> /\ score.ranks[1] = 14
    THEN "Royal Flush"
    ELSE IF score.category \in DOMAIN HAND_CATEGORY_LABELS
         THEN HAND_CATEGORY_LABELS[score.category]
         ELSE "Unknown"

\* ------------------------------------------------------------------------
\* ml/src/equity.py : estimate_equity
\* ------------------------------------------------------------------------

\* math.comb(n, k)
RECURSIVE comb(_, _)
comb(n, k) ==
    IF k > n THEN 0
    ELSE IF k = 0 THEN 1
    ELSE (comb(n - 1, k - 1) * n) \div k

\* random.sample(list(seq), n): every choice of n cards of S in every order
RECURSIVE _random_sample(_, _)
_random_sample(S, n) ==
    IF n = 0 THEN {<<>>}
    ELSE UNION {{<<x>> \o t : t \in _random_sample(S \ {x}, n - 1)} : x \in S}

hero_cards(state) == state.player_hand.cards

board_cards(state) == state.community.cards

\* remaining = get_remaining_cards(hero_cards + board_cards)
remaining(state) == get_remaining_cards(hero_cards(state) \o board_cards(state))

missing_board(state) == 5 - Len(board_cards(state))

\* cards_needed without the missing board cards
cards_needed_holeCardsOnly(state, opponents) == opponents * 2

cards_needed(state, opponents) == opponents * 2 + missing_board(state)

total_combos(state, opponents) == comb(Len(remaining(state)), cards_needed(state, opponents))

run_all(state, opponents, trials) == total_combos(state, opponents) <= trials

\* actual_trials always the budget
actual_trials_alwaysBudget(state, opponents, trials) == trials

actual_trials(state, opponents, trials) ==
    IF run_all(state, opponents, trials) THEN total_combos(state, opponents) ELSE trials

\* the score evaluate_best_hand returns; NoScore when it raises
BestScore(cs) == evaluate_best_hand(cs).score

\* the loop over range(opponents) keeping the last villain's score
RECURSIVE VillainLoop_lastVillain(_, _, _, _, _)
VillainLoop_lastVillain(sample, board, left, idx, best_villain) ==
    IF left <= 0 THEN best_villain
    ELSE LET villain_cards == Slice(sample, idx, idx + 2)
             score == BestScore(villain_cards \o board)
         IN VillainLoop_lastVillain(sample, board, left - 1, idx + 2, score)

\* the loop over range(opponents) with left rounds to go: best_villain
RECURSIVE VillainLoop(_, _, _, _, _)
VillainLoop(sample, board, left, idx, best_villain) ==
    IF left <= 0 THEN best_villain
    ELSE LET villain_cards == Slice(sample, idx, idx + 2)
             score == BestScore(villain_cards \o board)
         IN VillainLoop(sample, board, left - 1, idx + 2,
                        IF best_villain = NoScore \/ HandScoreGreater(score, best_villain)
                        THEN score ELSE best_villain)

\* the locals of one pass of the loop body over sample
Scenario(state, opponents, sample) ==
    LET board == board_cards(state) \o Take(sample, missing_board(state))
    IN [sample |-> sample,
        board |-> board,
        hero_score |-> BestScore(hero_cards(state) \o board),
        best_villain |-> VillainLoop(sample, board, opponents, missing_board(state), NoScore)]

\* no scenario: the loop body is not running
NoScenario == [sample |-> <<>>, board |-> <<>>, hero_score |-> NoScore, best_villain |-> NoScore]

\* equity = (wins + ties / 2) / actual_trials if actual_trials else 0.0
Equity(wins, ties, trials) ==
    IF trials # 0 THEN [num |-> 2 * wins + ties, den |-> 2 * trials]
    ELSE [num |-> 0, den |-> 1]

EquityEstimate(equity, wins, ties, trials) ==
    [kind |-> "estimate", equity |-> equity, wins |-> wins, ties |-> ties, trials |-> trials]

\* nothing returned
NoEstimate == [kind |-> "none"]

\* the two ValueErrors of estimate_equity
ErrOpponents == [kind |-> "error", message |-> "Number of opponents must be at least 1."]

ErrCards == [kind |-> "error", message |-> "Not enough cards remaining to complete simulation."]

\* the deck dealt out card by card, every fifth card from position s on
Dealt(s, i) == get_full_deck[((s + 5 * (i - 1)) % Len(get_full_deck)) + 1]

\* the sampled runs that are followed
SampledInScope(state, opponents, trials) ==
    /\ trials <= MaxSampled
    /\ cards_needed(state, opponents) <= MaxSampledCards

\* a Python float [c, d, n]: the number c/d + n/(d * 2^60)
Float(c, d, n) == [c |-> c, d |-> d, n |-> n]

\* a float kept as the fraction that the float expression stands for
Frac(num, den) == [num |-> num, den |-> den]

\* Optional[int]: None, or an int
None == [none |-> TRUE, v |-> 0]

Some(v) == [none |-> FALSE, v |-> v]

\* Optional[float]: None
NoFloat == Float(0, 0, 0)

\* no (action, confidence) yet
NoPolicy == [action |-> "", confidence |-> Frac(0, 1)]

\* DecisionContext(...), opponent_range and notes left at None
DecisionContext(pot_to_call, min_raise, strategy_profile, equity_samples, num_opponents) ==
    [pot_to_call |-> pot_to_call, min_raise |-> min_raise,
     strategy_profile |-> strategy_profile, equity_samples |-> equity_samples,
     num_opponents |-> num_opponents]

\* DecisionResult(...)
DecisionResult(action, confidence, recommended_bet, rationale, strategy_profile, equity) ==
    [kind |-> "result", action |-> action, confidence |-> confidence,
     recommended_bet |-> recommended_bet, rationale |-> rationale,
     strategy_profile |-> strategy_profile, equity |-> equity]

\* no DecisionResult
NoResult == [kind |-> "none"]

\* the evaluator variables when the evaluator is not called on its own
EvalIdle ==
    /\ e_cards = <<>>
    /\ e_op = "idle"
    /\ e_score = NoScore
    /\ e_label = ""
    /\ e_other = <<>>
    /\ e_oscore = NoScore
    /\ e_cmp = [lt |-> FALSE, eq |-> FALSE, gt |-> FALSE]

\* the estimate_equity variables when no call is made
EquityIdle ==
    /\ q_state = PokerGameState([cards |-> <<>>], [cards |-> <<>>], 0, 0)
    /\ q_opponents = 0
    /\ q_trials = 0
    /\ q_pc = "idle"
    /\ q_run_all = FALSE
    /\ q_done = 0
    /\ q_wins = 0
    /\ q_ties = 0
    /\ q_scenario = NoScenario
    /\ q_estimate = NoEstimate

\* the variables of the 52-card runs when no call is made
WholeIdle ==
    /\ w_state = PokerGameState([cards |-> <<>>], [cards |-> <<>>], 0, 0)
    /\ w_opponents = 0
    /\ w_trials = 0
    /\ w_pc = "idle"
    /\ w_plan = NoEstimate

\* None for a HandStrengthDetails
NoDetails == [kind |-> "none"]

\* None for a percentile
NoPercentile == [num |-> 0, den |-> 0]

\* no combo: the loop body of the percentile is not running
NoCombo == [combo |-> <<>>, opp_score |-> NoScore]

\* the describe_made_hand variables when no call is made
MadeIdle ==
    /\ m_hand = [cards |-> <<>>]
    /\ m_community = [cards |-> <<>>]
    /\ m_samples = 0
    /\ m_pc = "idle"
    /\ m_score = NoScore
    /\ m_run_all = FALSE
    /\ m_done = 0
    /\ m_better = 0
    /\ m_ties = 0
    /\ m_opp = NoCombo
    /\ m_result = NoDetails

\* the _apply_policy variables when no call is made
PolicyIdle ==
    /\ p_strength = NoFloat
    /\ p_pot_odds = NoFloat
    /\ p_strategy = ""
    /\ p_pc = "idle"
    /\ p_result = NoPolicy

\* no call of estimate_equity
NoCall == [opponents |-> 0, trials |-> 0]

\* the recommend_action variables when no call is made
DecisionIdle ==
    /\ d_state = PokerGameState([cards |-> <<>>], [cards |-> <<>>], 0, 0)
    /\ d_context = DecisionContext(None, None, "", 0, 0)
    /\ d_pc = "idle"
    /\ d_call = NoCall
    /\ d_equity_info = NoEstimate
    /\ d_strength = NoFloat
    /\ d_result = NoResult

\* no object built yet
NoObject == [kind |-> "none"]

\* the variables of the card model when none of its functions is called
ModelIdle ==
    /\ k_call = [op |-> "idle"]
    /\ k_out = NoObject
    /\ k_hand = NoObject
    /\ k_community = NoObject

EngineIdle == EvalIdle /\ EquityIdle /\ WholeIdle /\ MadeIdle /\ PolicyIdle /\ DecisionIdle

\* None for a Card
NoCard == [kind |-> "none"]

\* the parse_card_label variables when no call is made
ParseIdle ==
    /\ l_label = <<>>
    /\ l_pc = "idle"
    /\ l_card = NoCard

\* a key that is not in st.session_state; v keeps the type of its values
Out(v) == [in |-> FALSE, v |-> v]

\* a key of st.session_state and its value
In(v) == [in |-> TRUE, v |-> v]

\* no decision_result; a DecisionResult is kept as the arguments of the
\* recommend_action call that returned it
NoRecommendation ==
    [kind |-> "none",
     state |-> PokerGameState([cards |-> <<>>], [cards |-> <<>>], 0, 0),
     context |-> DecisionContext(None, None, "", 0, 0)]

\* st.session_state without any key
EmptySession ==
    [current_page |-> Out(""),
     detected_cards |-> Out(<<>>),
     detected_hand |-> Out([cards |-> <<>>]),
     selected_cards |-> Out(<<>>),
     community_cards |-> Out(<<>>),
     player_hand |-> Out([cards |-> <<>>]),
     decision_result |-> Out(NoRecommendation),
     player_stack |-> Out(0),
     pot_size |-> Out(0),
     amount_to_call |-> Out(0),
     min_raise |-> Out(0),
     num_opponents |-> Out(0),
     strategy_profile |-> Out(""),
     opponent_notes |-> Out(""),
     camera_photo_captured |-> Out(FALSE),
     photo |-> Out("")]

\* the script has not run
NoRun ==
    [button |-> "", selected |-> <<>>, error |-> "", toasts |-> {},
     displayed |-> NoRecommendation, reruns |-> 0,
     hand_before |-> Out([cards |-> <<>>]), result_before |-> FALSE]

\* the session variables when the pages are not shown
SessionIdle ==
    /\ s_session = EmptySession
    /\ s_run = NoRun

\* the caller's variables when no sequence of calls is followed
CallerIdle ==
    /\ a_state = NoObject
    /\ a_given = NoObject
    /\ a_pc = "none"
    /\ a_calls = 0
    /\ a_seen = {}
    /\ a_repeat = FALSE
    /\ a_last = NoObject

LaterIdle == ModelIdle /\ ParseIdle /\ SessionIdle /\ CallerIdle

NotModelIdle == EngineIdle /\ ParseIdle /\ SessionIdle /\ CallerIdle

NotParseIdle == EngineIdle /\ ModelIdle /\ SessionIdle /\ CallerIdle

NotSessionIdle == EngineIdle /\ ModelIdle /\ ParseIdle /\ CallerIdle

NotEvalIdle == EquityIdle /\ WholeIdle /\ MadeIdle /\ PolicyIdle /\ DecisionIdle /\ LaterIdle

NotEquityIdle == EvalIdle /\ WholeIdle /\ MadeIdle /\ PolicyIdle /\ DecisionIdle /\ LaterIdle

NotWholeIdle == EvalIdle /\ EquityIdle /\ MadeIdle /\ PolicyIdle /\ DecisionIdle /\ LaterIdle

NotMadeIdle == EvalIdle /\ EquityIdle /\ WholeIdle /\ PolicyIdle /\ DecisionIdle /\ LaterIdle

NotPolicyIdle == EvalIdle /\ EquityIdle /\ WholeIdle /\ MadeIdle /\ DecisionIdle /\ LaterIdle

NotDecisionIdle == EvalIdle /\ EquityIdle /\ WholeIdle /\ MadeIdle /\ PolicyIdle /\ LaterIdle

EquityInit ==
    /\ NotEquityIdle
    /\ \E s \in 0..(NumDeals - 1), b \in 0..5 :
          LET hand == [cards |-> <<Dealt(s, 1), Dealt(s, 2)>>]
              community == [cards |-> [i \in 1..b |-> Dealt(s, i + 2)]]
          IN /\ HandOk(hand.cards)
             /\ CommunityOk(community.cards)
             /\ PokerGameStateOk(hand, community, 100, 10)
             /\ q_state = PokerGameState(hand, community, 100, 10)
    /\ q_opponents \in 0..MaxOpponents
    /\ q_trials \in 0..MaxTrials
    /\ \/ q_opponents < 1
       \/ cards_needed(q_state, q_opponents) > Len(remaining(q_state))
       \/ run_all(q_state, q_opponents, q_trials)
       \/ SampledInScope(q_state, q_opponents, q_trials)
    /\ q_pc = "call"
    /\ q_run_all = FALSE
    /\ q_done = 0
    /\ q_wins = 0
    /\ q_ties = 0
    /\ q_scenario = NoScenario
    /\ q_estimate = NoEstimate

\* if opponents < 1: raise ValueError
RaiseOpponents ==
    /\ q_pc = "call"
    /\ q_opponents < 1
    /\ q_pc' = "failed"
    /\ q_estimate' = ErrOpponents
    /\ UNCHANGED <<notEquityVars, q_state, q_opponents, q_trials, q_run_all, q_done, q_wins, q_ties, q_scenario>>

\* if cards_needed > len(remaining): raise ValueError
RaiseCards ==
    /\ q_pc = "call"
    /\ ~(q_opponents < 1)
    /\ cards_needed(q_state, q_opponents) > Len(remaining(q_state))
    /\ q_pc' = "failed"
    /\ q_estimate' = ErrCards
    /\ UNCHANGED <<notEquityVars, q_state, q_opponents, q_trials, q_run_all, q_done, q_wins, q_ties, q_scenario>>

\* both checks pass: run_all is fixed, wins = ties = 0
BeginLoop ==
    /\ q_pc = "call"
    /\ ~(q_opponents < 1)
    /\ ~(cards_needed(q_state, q_opponents) > Len(remaining(q_state)))
    /\ q_run_all' = run_all(q_state, q_opponents, q_trials)
    /\ q_wins' = 0
    /\ q_ties' = 0
    /\ q_done' = 0
    /\ q_pc' = "loop"
    /\ UNCHANGED <<notEquityVars, q_state, q_opponents, q_trials, q_scenario, q_estimate>>

\* as ScenarioExhaustive, with the board completed in place:
\* board_cards.extend(board_extra) on the list of state.community
ScenarioExhaustive_extendsBoard ==
    /\ q_pc = "loop"
    /\ q_run_all
    /\ LET samples == combinations(remaining(q_state), cards_needed(q_state, q_opponents))
       IN /\ q_done < Len(samples)
          /\ q_scenario' = Scenario(q_state, q_opponents, samples[q_done + 1])
          /\ q_state' = [q_state EXCEPT !.community.cards =
                            @ \o Take(samples[q_done + 1], missing_board(q_state))]
    /\ q_done' = q_done + 1
    /\ q_pc' = "scored"
    /\ UNCHANGED <<notEquityVars, q_opponents, q_trials, q_run_all, q_wins, q_ties, q_estimate>>

\* for sample in combinations(remaining, cards_needed): the next combination
\* is taken and the hero and the villains are scored
ScenarioExhaustive ==
    /\ q_pc = "loop"
    /\ q_run_all
    /\ LET samples == combinations(remaining(q_state), cards_needed(q_state, q_opponents))
       IN /\ q_done < Len(samples)
          /\ q_scenario' = Scenario(q_state, q_opponents, samples[q_done + 1])
    /\ q_done' = q_done + 1
    /\ q_pc' = "scored"
    /\ UNCHANGED <<notEquityVars, q_state, q_opponents, q_trials, q_run_all, q_wins, q_ties, q_estimate>>

\* for sample in (_random_sample(...) for _ in range(trials)): a sample is
\* drawn and the hero and the villains are scored
ScenarioSampled ==
    /\ q_pc = "loop"
    /\ ~q_run_all
    /\ q_done < q_trials
    /\ \E sample \in _random_sample(Range(remaining(q_state)), cards_needed(q_state, q_opponents)) :
          q_scenario' = Scenario(q_state, q_opponents, sample)
    /\ q_done' = q_done + 1
    /\ q_pc' = "scored"
    /\ UNCHANGED <<notEquityVars, q_state, q_opponents, q_trials, q_run_all, q_wins, q_ties, q_estimate>>

\* if hero_score > best_villain: wins += 1; elif ==: ties += 1
Count ==
    /\ q_pc = "scored"
    /\ q_wins' = IF HandScoreGreater(q_scenario.hero_score, q_scenario.best_villain)
                 THEN q_wins + 1 ELSE q_wins
    /\ q_ties' = IF /\ ~HandScoreGreater(q_scenario.hero_score, q_scenario.best_villain)
                    /\ HandScoreEq(q_scenario.hero_score, q_scenario.best_villain)
                 THEN q_ties + 1 ELSE q_ties
    /\ q_scenario' = NoScenario
    /\ q_pc' = "loop"
    /\ UNCHANGED <<notEquityVars, q_state, q_opponents, q_trials, q_run_all, q_done, q_estimate>>

\* samples is exhausted: the estimate is returned
ReturnEstimate ==
    /\ q_pc = "loop"
    /\ q_done = (IF q_run_all THEN total_combos(q_state, q_opponents) ELSE q_trials)
    /\ LET trials == actual_trials(q_state, q_opponents, q_trials)
       IN q_estimate' = EquityEstimate(Equity(q_wins, q_ties, trials), q_wins, q_ties, trials)
    /\ q_pc' = "done"
    /\ UNCHANGED <<notEquityVars, q_state, q_opponents, q_trials, q_run_all, q_done, q_wins, q_ties, q_scenario>>

\* ------------------------------------------------------------------------
\* Hand evaluator: inputs and calls
\* ------------------------------------------------------------------------

\* five cards of the rank positions r (ascending) in suit pattern p: card i
\* has suit number (i * p) mod 4, so pattern 0 is a flush and pattern 1 gives
\* equal ranks different suits
FiveCardHand(r, p) ==
    [i \in 1..5 |-> Card(valid_ranks[r[i]], valid_suits[((i * p) % Len(valid_suits)) + 1])]

\* the sub-list of s at the positions I
RECURSIVE SubList(_, _)
SubList(s, I) ==
    IF I = {} THEN <<>>
    ELSE LET m == SetMin(I) IN <<s[m]>> \o SubList(s, I \ {m})

\* one hand of every category, the wheel and the royal flush
RefHands ==
    << FiveCardHand(<<1, 3, 5, 8, 12>>, 1),     \* high card
       FiveCardHand(<<2, 6, 6, 9, 11>>, 1),     \* one pair
       FiveCardHand(<<3, 3, 7, 10, 10>>, 1),    \* two pair
       FiveCardHand(<<4, 8, 8, 8, 13>>, 1),     \* three of a kind
       FiveCardHand(<<5, 6, 7, 8, 9>>, 1),      \* straight
       FiveCardHand(<<1, 2, 3, 4, 13>>, 1),     \* wheel
       FiveCardHand(<<2, 5, 7, 11, 12>>, 0),    \* flush
       FiveCardHand(<<6, 6, 9, 9, 9>>, 1),      \* full house
       FiveCardHand(<<7, 7, 7, 7, 12>>, 1),     \* four of a kind
       FiveCardHand(<<4, 5, 6, 7, 8>>, 0),      \* straight flush
       FiveCardHand(<<9, 10, 11, 12, 13>>, 0) >> \* royal flush

EvalInit ==
    /\ NotEvalIdle
    /\ e_op = "input"
    /\ e_score = NoScore
    /\ e_label = ""
    /\ e_other = <<>>
    /\ e_oscore = NoScore
    /\ e_cmp = [lt |-> FALSE, eq |-> FALSE, gt |-> FALSE]
    /\ \/ \E r1 \in DOMAIN valid_ranks : \E r2 \in r1..Len(valid_ranks) : \E r3 \in r2..Len(valid_ranks) :
          \E r4 \in r3..Len(valid_ranks) : \E r5 \in r4..Len(valid_ranks) : \E p \in 0..(NumPatterns - 1) :
             /\ e_cards = FiveCardHand(<<r1, r2, r3, r4, r5>>, p)
             /\ ~does_contain_duplicate(e_cards)
       \/ \E I \in SUBSET (1..Len(get_full_deck)) :
             /\ Cardinality(I) <= MaxCards
             /\ e_cards = SubList(get_full_deck, I)

\* score = _score_five_cards(combo)
ScoreFive ==
    /\ e_op = "input"
    /\ Len(e_cards) = 5
    /\ e_score' = _score_five_cards(e_cards)
    /\ e_op' = "scored"
    /\ UNCHANGED <<notEvalVars, e_cards, e_label, e_other, e_oscore, e_cmp>>

\* evaluate_best_hand(cards) returns
EvaluateBestOk ==
    /\ e_op = "input"
    /\ evaluate_best_hand(e_cards).ok
    /\ e_score' = evaluate_best_hand(e_cards).score
    /\ e_op' = "best"
    /\ UNCHANGED <<notEvalVars, e_cards, e_label, e_other, e_oscore, e_cmp>>

\* evaluate_best_hand(cards) raises ValueError
EvaluateBestFail ==
    /\ e_op = "input"
    /\ ~evaluate_best_hand(e_cards).ok
    /\ e_op' = "failed"
    /\ UNCHANGED <<notEvalVars, e_cards, e_score, e_label, e_other, e_oscore, e_cmp>>

\* label = _score_to_label(score)
Label ==
    /\ e_op = "scored"
    /\ e_label' = _score_to_label(e_score)
    /\ e_op' = "labelled"
    /\ UNCHANGED <<notEvalVars, e_cards, e_score, e_other, e_oscore, e_cmp>>

\* score < other, score == other, score > other for a second scored hand
Compare ==
    /\ e_op = "scored"
    /\ \E k \in DOMAIN RefHands :
          /\ e_other' = RefHands[k]
          /\ e_oscore' = _score_five_cards(RefHands[k])
          /\ e_cmp' = [lt |-> HandScoreLess(e_score, e_oscore'),
                       eq |-> HandScoreEq(e_score, e_oscore'),
                       gt |-> HandScoreGreater(e_score, e_oscore')]
    /\ e_op' = "compared"
    /\ UNCHANGED <<notEvalVars, e_cards, e_score, e_label>>

EvalNext == ScoreFive \/ EvaluateBestOk \/ EvaluateBestFail \/ Label \/ Compare

\* the hand evaluator on its own
Spec == EvalInit /\ [][EvalNext]_vars

\* ------------------------------------------------------------------------
\* Poker vocabulary the properties are stated in
\* ------------------------------------------------------------------------

\* the rank of a card as a number: 2..10, J = 11, Q = 12, K = 13, A = 14
RankValue(card) == 1 + CHOOSE i \in DOMAIN valid_ranks : valid_ranks[i] = card.rank

RankSet(h) == {RankValue(h[i]) : i \in DOMAIN h}

\* how many cards of h have rank v
CountOf(h, v) == Cardinality({i \in DOMAIN h : RankValue(h[i]) = v})

AllOneSuit(h) == \A i, j \in DOMAIN h : h[i].suit = h[j].suit

IsWheel(h) == RankSet(h) = {14, 2, 3, 4, 5}

\* five consecutive ranks, or the wheel
FiveInARow(h) ==
    \/ \E lo \in 2..10 : RankSet(h) = lo..(lo + 4)
    \/ IsWheel(h)

\* h meets the definition of category c
Qualifies(h, c) ==
    CASE c = 8 -> AllOneSuit(h) /\ FiveInARow(h)
      [] c = 7 -> \E v \in RankSet(h) : CountOf(h, v) = 4
      [] c = 6 -> \E v, w \in RankSet(h) : CountOf(h, v) = 3 /\ CountOf(h, w) = 2
      [] c = 5 -> AllOneSuit(h)
      [] c = 4 -> FiveInARow(h)
      [] c = 3 -> \E v \in RankSet(h) : CountOf(h, v) >= 3
      [] c = 2 -> \E v, w \in RankSet(h) :
                     v # w /\ CountOf(h, v) >= 2 /\ CountOf(h, w) >= 2
      [] c = 1 -> \E v \in RankSet(h) : CountOf(h, v) >= 2
      [] c = 0 -> TRUE

\* the highest category h qualifies for
BestCategory(h) == SetMax({c \in 0..8 : Qualifies(h, c)})

\* a is ranked strictly below b: lower category, or the same category and a
\* lower rank at the first place where the tie-break ranks differ
ScoreBelow(a, b) ==
    \/ a.category < b.category
    \/ /\ a.category = b.category
       /\ \E i \in DOMAIN a.ranks \cap DOMAIN b.ranks :
             /\ \A j \in 1..(i - 1) : a.ranks[j] = b.ranks[j]
             /\ a.ranks[i] < b.ranks[i]

\* the 5-card subsets of a card list
FiveSubsets(h) == {SubList(h, I) : I \in {J \in SUBSET DOMAIN h : Cardinality(J) = 5}}

\* the scores of the reference hands
RefScores == [k \in DOMAIN RefHands |-> _score_five_cards(RefHands[k])]

\* _score_five_cards has just returned the score of the five cards
FiveScored == e_op = "scored"

\* ------------------------------------------------------------------------
\* Properties of the hand evaluator
\* ------------------------------------------------------------------------

\* C1: evaluate_best_hand on 5, 6 or 7 distinct cards returns the maximum of
\* _score_five_cards over all 5-card subsets (1, 6 or 21 of them); on fewer
\* than 5 cards it fails and returns no score.
C1_BestHandIsMax ==
    /\ e_op = "best" =>
          /\ Len(e_cards) >= 5
          /\ LET scores == {_score_five_cards(c) : c \in FiveSubsets(e_cards)}
             IN /\ e_score \in scores
                /\ \A t \in scores : ~ScoreBelow(e_score, t)
          /\ Len(combinations(e_cards, 5)) = Cardinality(FiveSubsets(e_cards))
          /\ Len(e_cards) = 5 => Len(combinations(e_cards, 5)) = 1
          /\ Len(e_cards) = 6 => Len(combinations(e_cards, 5)) = 6
          /\ Len(e_cards) = 7 => Len(combinations(e_cards, 5)) = 21
    /\ e_op = "failed" => Len(e_cards) < 5 /\ e_score = NoScore
    /\ Len(e_cards) < 5 => e_op \in {"input", "failed"}

\* a 7-card list whose best hand is not its first 5-card combination
C1_Witness ==
    /\ e_op = "best"
    /\ Len(e_cards) = 7
    /\ e_score # _score_five_cards(SubSeq(e_cards, 1, 5))

\* a list of fewer than 5 cards was refused
C1_WitnessFail == e_op = "failed" /\ Len(e_cards) = 4

\* C2: _score_five_cards returns the highest category the five cards qualify
\* for under straight-flush(8) > quads(7) > full-house(6) > flush(5) >
\* straight(4) > trips(3) > two-pair(2) > one-pair(1) > high-card(0); the
\* category is always in 0..8.
C2_HighestCategory ==
    FiveScored =>
        /\ e_score.category \in 0..8
        /\ e_score.category = BestCategory(e_cards)

\* a full house, which also qualifies as trips, two pair and one pair
C2_Witness ==
    /\ e_op = "scored"
    /\ e_score.category = 6
    /\ Qualifies(e_cards, 3) /\ Qualifies(e_cards, 2) /\ Qualifies(e_cards, 1)

\* C3: HandScore comparison is a total order, lexicographic on (category,
\* tie-break ranks): the higher category is greater whatever the ranks, within
\* a category the first differing rank decides, and two scores are equal iff
\* category and all ranks are equal.
C3_LexicographicOrder ==
    e_op = "compared" =>
        LET a == e_score
            b == e_oscore
        IN /\ Cardinality({f \in {"lt", "eq", "gt"} : e_cmp[f]}) = 1
           /\ a.category > b.category => e_cmp.gt
           /\ a.category < b.category => e_cmp.lt
           /\ e_cmp.lt <=> ScoreBelow(a, b)
           /\ e_cmp.gt <=> ScoreBelow(b, a)
           /\ e_cmp.eq <=> (a.category = b.category /\ Len(a.ranks) = Len(b.ranks)
                              /\ \A i \in DOMAIN a.ranks : a.ranks[i] = b.ranks[i])
           /\ \A k \in DOMAIN RefScores :
                 LET c == RefScores[k]
                 IN /\ (HandScoreLess(a, b) /\ HandScoreLess(b, c)) => HandScoreLess(a, c)
                    /\ (HandScoreLess(c, a) /\ HandScoreLess(a, b)) => HandScoreLess(c, b)

\* two hands of one category that differ only in a later tie-break rank
C3_Witness ==
    /\ e_op = "compared"
    /\ e_score.category = e_oscore.category
    /\ e_score.ranks[1] = e_oscore.ranks[1]
    /\ e_score.ranks # e_oscore.ranks
    /\ e_cmp.gt

\* a hand of a higher category with lower ranks compares greater
C3_WitnessCategory ==
    /\ e_op = "compared"
    /\ e_score.category > e_oscore.category
    /\ e_score.ranks[1] < e_oscore.ranks[1]
    /\ e_cmp.gt

\* v is the only rank that occurs exactly n times in h
OnlyRankWithCount(h, v, n) ==
    /\ CountOf(h, v) = n
    /\ \A w \in RankSet(h) : CountOf(h, w) = n => w = v

\* t lists exactly the ranks that occur once in h, highest first, cut to n
TopSingles(h, t, n) ==
    LET singles == {v \in RankSet(h) : CountOf(h, v) = 1}
    IN /\ Len(t) = n
       /\ \A i \in DOMAIN t : t[i] \in singles
       /\ \A i \in 1..(n - 1) : t[i] > t[i + 1]
       /\ \A v \in singles : v > t[n] => \E i \in DOMAIN t : t[i] = v

\* C4: the tie-break tuple has the shape fixed for its category: straight and
\* straight flush (straight-high); quads (quad, kicker); full house (trips,
\* pair); flush and high card all five ranks descending; trips (trips, two
\* kickers descending); two pair (higher pair, lower pair, kicker); one pair
\* (pair, three kickers descending); ranks are 2..14 with ace = 14.
C4_TieBreakShape ==
    FiveScored =>
        LET c == e_score.category
            t == e_score.ranks
            h == e_cards
        IN /\ \A i \in DOMAIN t : t[i] \in 2..14
           /\ (\E i \in DOMAIN h : h[i].rank = "A") /\ c \in {0, 5} => t[1] = 14
           /\ c \in {8, 4} =>
                 t = <<IF IsWheel(h) THEN 5 ELSE SetMax(RankSet(h))>>
           /\ c = 7 =>
                 /\ Len(t) = 2
                 /\ CountOf(h, t[1]) = 4 /\ CountOf(h, t[2]) = 1
           /\ c = 6 =>
                 /\ Len(t) = 2
                 /\ CountOf(h, t[1]) = 3 /\ CountOf(h, t[2]) = 2
           /\ c \in {5, 0} =>
                 /\ Len(t) = 5
                 /\ \A i \in 1..4 : t[i] > t[i + 1]
                 /\ Range(t) = RankSet(h)
           /\ c = 3 =>
                 /\ Len(t) = 3
                 /\ OnlyRankWithCount(h, t[1], 3)
                 /\ TopSingles(h, SubSeq(t, 2, 3), 2)
           /\ c = 2 =>
                 /\ Len(t) = 3
                 /\ CountOf(h, t[1]) = 2 /\ CountOf(h, t[2]) = 2 /\ t[1] > t[2]
                 /\ CountOf(h, t[3]) = 1
           /\ c = 1 =>
                 /\ Len(t) = 4
                 /\ OnlyRankWithCount(h, t[1], 2)
                 /\ TopSingles(h, SubSeq(t, 2, 4), 3)

\* two pair whose kicker is higher than both pairs
C4_Witness ==
    /\ e_op = "scored"
    /\ e_score.category = 2
    /\ e_score.ranks[3] > e_score.ranks[1]

\* C5: the ace counts low only in the wheel: A,2,3,4,5 is a straight (straight
\* flush when suited) with tie-break rank 5; any other five ranks with an ace
\* are a straight only when they are 10,J,Q,K,A (tie-break 14); wrap-around
\* sets such as Q,K,A,2,3 are not straights.
C5_AceLowOnlyInWheel ==
    (FiveScored /\ 14 \in RankSet(e_cards)) =>
        /\ IsWheel(e_cards) =>
              /\ e_score.category = (IF AllOneSuit(e_cards) THEN 8 ELSE 4)
              /\ e_score.ranks = <<5>>
        /\ RankSet(e_cards) = 10..14 =>
              /\ e_score.category = (IF AllOneSuit(e_cards) THEN 8 ELSE 4)
              /\ e_score.ranks = <<14>>
        /\ e_score.category \in {4, 8} => (IsWheel(e_cards) \/ RankSet(e_cards) = 10..14)

\* the unsuited wheel scored as a five-high straight
C5_Witness ==
    /\ e_op = "scored"
    /\ IsWheel(e_cards) /\ ~AllOneSuit(e_cards)
    /\ e_score = HandScore(4, <<5>>)

\* Q,K,A,2,3 scored as no straight
C5_WitnessWrap ==
    /\ e_op = "scored"
    /\ RankSet(e_cards) = {12, 13, 14, 2, 3}
    /\ e_score.category \notin {4, 8}

\* the label of each category
CategoryLabel ==
    <<"High Card", "One Pair", "Two Pair", "Three of a Kind", "Straight",
      "Flush", "Full House", "Four of a Kind", "Straight Flush">>

IsRoyalFlush(h) == AllOneSuit(h) /\ RankSet(h) = 10..14

\* C6: a royal flush scores as category 8 with tie-break rank 14 and is
\* labelled "Royal Flush", as is no other hand; every other straight flush
\* (tie-break 5..13) is labelled "Straight Flush", and each category 0..7
\* has its own fixed label.
C6_RoyalFlushLabel ==
    /\ (FiveScored /\ IsRoyalFlush(e_cards)) => e_score = HandScore(8, <<14>>)
    /\ e_op = "labelled" =>
          /\ e_label = "Royal Flush" <=> IsRoyalFlush(e_cards)
          /\ e_label = "Royal Flush" <=> e_score = HandScore(8, <<14>>)
          /\ (e_score.category = 8 /\ ~IsRoyalFlush(e_cards)) =>
                 e_label = "Straight Flush" /\ e_score.ranks[1] \in 5..13
          /\ e_score.category \in 0..7 => e_label = CategoryLabel[e_score.category + 1]
    /\ \A c, d \in DOMAIN CategoryLabel :
          (c # d => CategoryLabel[c] # CategoryLabel[d]) /\ CategoryLabel[c] # "Royal Flush"

\* the royal flush labelled
C6_Witness ==
    /\ e_op = "labelled"
    /\ IsRoyalFlush(e_cards)
    /\ e_label = "Royal Flush"

\* the steel wheel labelled as an ordinary straight flush
C6_WitnessSteelWheel ==
    /\ e_op = "labelled"
    /\ e_score = HandScore(8, <<5>>)
    /\ e_label = "Straight Flush"

EquityNext ==
    \/ RaiseOpponents \/ RaiseCards \/ BeginLoop \/ ScenarioExhaustive
    \/ ScenarioSampled \/ Count \/ ReturnEstimate

\* calls of estimate_equity
EquitySpec == EquityInit /\ [][EquityNext]_vars

\* ------------------------------------------------------------------------
\* Properties of estimate_equity
\* ------------------------------------------------------------------------

\* the cards that are neither in the hero's hand nor on the board
Unseen == Range(get_full_deck) \ (Range(hero_cards(q_state)) \cup Range(board_cards(q_state)))

\* opponent hole cards plus missing board cards
Needed == q_opponents * 2 + (5 - Len(board_cards(q_state)))

\* the number of k-element subsets of an n-element set
RECURSIVE Binomial(_, _)
Binomial(n, k) ==
    IF k < 0 \/ k > n THEN 0
    ELSE IF k = 0 \/ k = n THEN 1
    ELSE Binomial(n - 1, k - 1) + Binomial(n - 1, k)

\* the k-element subsets of S
RECURSIVE KSubsets(_, _)
KSubsets(S, k) ==
    IF k = 0 THEN {{}}
    ELSE IF Cardinality(S) < k THEN {}
    ELSE LET x == CHOOSE y \in S : TRUE
         IN {T \cup {x} : T \in KSubsets(S \ {x}, k - 1)} \cup KSubsets(S \ {x}, k)

\* the position of card c in the list s
PositionIn(s, c) == CHOOSE i \in DOMAIN s : s[i] = c

\* the largest of a non-empty set of scores
MaxScore(S) == CHOOSE m \in S : \A t \in S : ~ScoreBelow(m, t)

\* the call has got past its two checks
EquityRunning == q_pc \in {"loop", "scored", "done"}

\* C7: estimate_equity fails, returning no estimate, when opponents < 1 and
\* when opponents*2 + (5 - board cards) exceeds the number of cards not in
\* the hero's hand or on the board; in every other case it returns an
\* estimate: the call ends in the error exactly for those arguments, yields
\* nothing before its end, and its loop never runs past its last scenario.
C7_FailsExactlyOnBadArguments ==
    LET bad == q_opponents < 1 \/ Needed > Cardinality(Unseen)
        scenarios == IF q_run_all THEN Binomial(Cardinality(Unseen), Needed) ELSE q_trials
    IN /\ q_pc # "call" => (q_pc = "failed" <=> bad)
       /\ q_pc = "failed" => q_estimate.kind = "error"
       /\ q_pc = "done" => q_estimate.kind = "estimate"
       /\ q_pc \in {"call", "loop", "scored"} => q_estimate = NoEstimate
       /\ q_pc \in {"loop", "scored"} => q_done <= scenarios

\* one opponent too many for the unseen cards
C7_Witness ==
    /\ q_pc = "failed"
    /\ q_opponents >= 1
    /\ Needed = Cardinality(Unseen) + 1

\* no opponent
C7_WitnessOpponents == q_pc = "failed" /\ q_opponents = 0 /\ q_estimate = ErrOpponents

\* the combination evaluated in the current pass is the one with exactly
\* q_done - 1 combinations before it in the order of the unseen cards
IsCombinationNumber(sample, n) ==
    LET rem == remaining(q_state)
        pos == [i \in DOMAIN sample |-> PositionIn(rem, sample[i])]
        before == {S \in KSubsets(DOMAIN rem, Len(sample)) : TupleLess(SortedAsc(S), pos)}
    IN /\ Len(sample) = Needed
       /\ \A i \in 1..(Len(sample) - 1) : pos[i] < pos[i + 1]
       /\ Cardinality(before) = n - 1

\* wins and ties over every choice of Needed unseen cards, each taken once
AllCombinationCounts ==
    LET rem == remaining(q_state)
        subsets == KSubsets(DOMAIN rem, Needed)
        sc == [S \in subsets |-> Scenario(q_state, q_opponents, SubList(rem, S))]
    IN [wins |-> Cardinality({S \in subsets : ScoreBelow(sc[S].best_villain, sc[S].hero_score)}),
        ties |-> Cardinality({S \in subsets : sc[S].best_villain = sc[S].hero_score})]

\* C8: when C(remaining, needed) <= trials every combination is evaluated
\* once, the returned trials field is C(remaining, needed) and the result is
\* fixed by the arguments; otherwise exactly `trials` sampled scenarios are
\* evaluated and the returned trials field is `trials`.
C8_ExactOrSampled ==
    LET combos == Binomial(Cardinality(Unseen), Needed)
    IN /\ EquityRunning => (q_run_all <=> combos <= q_trials)
       /\ (q_pc = "scored" /\ q_run_all) => IsCombinationNumber(q_scenario.sample, q_done)
       /\ (q_pc = "done" /\ q_run_all) =>
             LET all == AllCombinationCounts
             IN /\ q_done = combos
                /\ q_estimate.trials = combos
                /\ q_estimate.wins = all.wins
                /\ q_estimate.ties = all.ties
                /\ q_estimate.equity = [num |-> 2 * all.wins + all.ties, den |-> 2 * combos]
       /\ (q_pc = "done" /\ ~q_run_all) =>
             /\ q_done = q_trials
             /\ q_estimate.trials = q_trials

\* an exhaustive run over several combinations with budget to spare
C8_Witness ==
    /\ q_pc = "done"
    /\ q_run_all
    /\ q_estimate.trials > 1
    /\ q_estimate.trials < q_trials

\* a sampled run that has evaluated its one scenario
C8_WitnessSampled ==
    /\ q_pc = "done"
    /\ ~q_run_all
    /\ q_estimate.trials = 1
    /\ q_done = 1

\* every way to give `left` opponents two cards each out of S
RECURSIVE VillainDeals(_, _)
VillainDeals(S, left) ==
    IF left = 0 THEN {<<>>}
    ELSE UNION {{<<P>> \o rest : rest \in VillainDeals(S \ P, left - 1)} :
                   P \in {Q \in SUBSET S : Cardinality(Q) = 2}}

\* every deal of the unseen cards: the cards that complete the board and the
\* two cards of each opponent
Deals ==
    UNION {{[board |-> B, villains |-> v] : v \in VillainDeals(Unseen \ B, q_opponents)} :
              B \in {C \in SUBSET Unseen : Cardinality(C) = 5 - Len(board_cards(q_state))}}

\* a set of cards as a list
RECURSIVE AsList(_)
AsList(S) == IF S = {} THEN <<>> ELSE LET c == CHOOSE x \in S : TRUE IN <<c>> \o AsList(S \ {c})

\* +1 when the hero wins the deal, 0 when the hero ties, -1 otherwise
DealOutcome(d) ==
    LET board == board_cards(q_state) \o AsList(d.board)
        hero == BestScore(hero_cards(q_state) \o board)
        best == MaxScore({BestScore(AsList(d.villains[i]) \o board) : i \in DOMAIN d.villains})
    IN IF ScoreBelow(best, hero) THEN 1 ELSE IF best = hero THEN 0 ELSE -1

\* P(win) + P(tie)/2 over all deals, as the fraction num/den
TrueEquity ==
    LET won == Cardinality({d \in Deals : DealOutcome(d) = 1})
        tied == Cardinality({d \in Deals : DealOutcome(d) = 0})
    IN [num |-> 2 * won + tied, den |-> 2 * Cardinality(Deals)]

\* C9: in exhaustive mode the returned equity is exact, P(win) + P(tie)/2 over
\* all equally likely deals of the unseen cards, for every number of missing
\* board cards and every number of opponents.
C9_ExhaustiveEquityIsExact ==
    (q_pc = "done" /\ q_run_all) =>
        q_estimate.equity.num * TrueEquity.den = TrueEquity.num * q_estimate.equity.den

\* the scores of the opponents in the current scenario, each on its board
VillainScores ==
    LET mb == 5 - Len(board_cards(q_state))
        s == q_scenario.sample
    IN {BestScore(<<s[mb + 2 * i - 1], s[mb + 2 * i]>> \o q_scenario.board) : i \in 1..q_opponents}

C10_Scenario ==
    q_pc = "scored" =>
        LET b == Len(board_cards(q_state))
        IN /\ Len(q_scenario.board) = 5
           /\ SubSeq(q_scenario.board, 1, b) = board_cards(q_state)
           /\ SubSeq(q_scenario.board, b + 1, 5) = SubSeq(q_scenario.sample, 1, 5 - b)
           /\ q_scenario.hero_score = BestScore(hero_cards(q_state) \o q_scenario.board)
           /\ q_scenario.best_villain = MaxScore(VillainScores)

C10_Counted ==
    (q_pc = "scored" /\ q_pc' = "loop") =>
        /\ q_wins' = q_wins + (IF ScoreBelow(q_scenario.best_villain, q_scenario.hero_score)
                               THEN 1 ELSE 0)
        /\ q_ties' = q_ties + (IF q_scenario.hero_score = q_scenario.best_villain THEN 1 ELSE 0)

C10_Estimate ==
    q_pc = "done" =>
        LET e == q_estimate
        IN /\ e.wins >= 0
           /\ e.ties >= 0
           /\ e.wins + e.ties <= e.trials
           /\ e.equity.den > 0
           /\ e.equity.num * 2 * e.trials = (2 * e.wins + e.ties) * e.equity.den
           /\ 0 <= e.equity.num /\ e.equity.num <= e.equity.den

\* C10: in every scenario the hero and every opponent are scored on the same
\* completed 5-card board; a win is counted iff the hero's score is strictly
\* greater than the maximum of the opponents' scores, a tie iff it equals it;
\* every returned estimate has wins >= 0, ties >= 0, wins + ties <= trials and
\* equity = (wins + ties/2) / trials in [0,1].
C10_ScenarioCounting == [](C10_Scenario /\ C10_Estimate) /\ [][C10_Counted]_vars

\* an estimate made of wins, ties and losses
C10_Witness ==
    /\ q_pc = "done"
    /\ q_estimate.wins > 0
    /\ q_estimate.ties > 0
    /\ q_estimate.wins + q_estimate.ties < q_estimate.trials

\* the hero beats the first of two opponents and loses to the second
C10_WitnessBestRival ==
    LET mb == 5 - Len(board_cards(q_state))
        s == q_scenario.sample
    IN /\ q_pc = "scored"
       /\ q_opponents = 2
       /\ ScoreBelow(BestScore(<<s[mb + 1], s[mb + 2]>> \o q_scenario.board),
                     q_scenario.hero_score)
       /\ ScoreBelow(q_scenario.hero_score, q_scenario.best_villain)

\* the hole cards of opponent i in the current scenario
VillainCards(i) ==
    LET mb == 5 - Len(board_cards(q_state))
    IN <<q_scenario.sample[mb + 2 * i - 1], q_scenario.sample[mb + 2 * i]>>

\* every card in play in the current scenario: hero, board, opponents
RECURSIVE CardsInPlay(_)
CardsInPlay(i) ==
    IF i = 0 THEN hero_cards(q_state) \o q_scenario.board
    ELSE CardsInPlay(i - 1) \o VillainCards(i)

\* C11: in every scenario estimate_equity evaluates, enumerated or sampled,
\* the hero's two cards, the five cards of the completed board and the hole
\* cards of all opponents are pairwise distinct.
C11_ScenarioCardsDistinct ==
    q_pc = "scored" =>
        LET all == CardsInPlay(q_opponents)
        IN /\ Len(q_scenario.board) = 5
           /\ Len(q_scenario.sample) = Needed
           /\ Len(all) = 7 + 2 * q_opponents
           /\ \A i, j \in DOMAIN all : i # j => all[i] # all[j]

\* an enumerated scenario with two opponents and board cards still to come
C11_Witness ==
    /\ q_pc = "scored"
    /\ q_run_all
    /\ q_opponents = 2
    /\ Len(board_cards(q_state)) < 5
    /\ Cardinality(Range(CardsInPlay(q_opponents))) = 11

\* a sampled scenario
C11_WitnessSampled ==
    /\ q_pc = "scored"
    /\ ~q_run_all
    /\ Cardinality(Range(CardsInPlay(q_opponents))) = 9

\* ------------------------------------------------------------------------
\* estimate_equity on the program's deck of 52 cards: the lines that fix
\* the number of scenarios
\* ------------------------------------------------------------------------

\* opponents: int = 1
DefaultOpponents == 1

\* trials: int = 2000
DefaultTrials == 2000

\* get_remaining_cards(used) that filters the list of the call before
whole_remaining_ofLast(used) ==
    LET in_deck(card) == card \notin Range(used)
        deck == IF k_call.op \in {"get_full_deck", "get_remaining_cards"}
                THEN k_out ELSE whole_deck
    IN SelectSeq(deck, in_deck)

\* get_remaining_cards(used) on all 52 cards
whole_remaining(used) ==
    LET in_deck(card) == card \notin Range(used)
    IN SelectSeq(whole_deck, in_deck)

\* estimate_equity down to actual_trials, with remaining taken from all 52
\* cards
WholePlan(state, opponents, trials) ==
    LET rem == whole_remaining(hero_cards(state) \o board_cards(state))
        needed == cards_needed(state, opponents)
        total == comb(Len(rem), needed)
    IN IF opponents < 1 THEN ErrOpponents
       ELSE IF needed > Len(rem) THEN ErrCards
       ELSE [kind |-> "plan",
             remaining |-> Len(rem),
             cards_needed |-> needed,
             total_combos |-> total,
             run_all |-> total <= trials,
             actual_trials |-> IF total <= trials THEN total ELSE trials]

\* the hero holds an ace and any other card; the board is the first b of the
\* other cards
WholeInit ==
    /\ NotWholeIdle
    /\ \E i \in DOMAIN whole_deck, j \in DOMAIN whole_deck, b \in 0..MaxCommunity :
          LET hand == [cards |-> <<whole_deck[i], whole_deck[j]>>]
              community == [cards |-> Take(whole_remaining(hand.cards), b)]
          IN /\ whole_deck[i].rank = "A"
             /\ HandOk(hand.cards)
             /\ CommunityOk(community.cards)
             /\ PokerGameStateOk(hand, community, 100, 10)
             /\ w_state = PokerGameState(hand, community, 100, 10)
    /\ w_opponents \in {0, DefaultOpponents}
    /\ w_trials = DefaultTrials
    /\ w_pc = "call"
    /\ w_plan = NoEstimate

\* one of the two checks raises ValueError
WholeRaise ==
    /\ w_pc = "call"
    /\ WholePlan(w_state, w_opponents, w_trials).kind = "error"
    /\ w_plan' = WholePlan(w_state, w_opponents, w_trials)
    /\ w_pc' = "failed"
    /\ UNCHANGED <<notWholeVars, w_state, w_opponents, w_trials>>

\* total_combos, run_all and actual_trials are fixed
WholePlanned ==
    /\ w_pc = "call"
    /\ WholePlan(w_state, w_opponents, w_trials).kind = "plan"
    /\ w_plan' = WholePlan(w_state, w_opponents, w_trials)
    /\ w_pc' = "planned"
    /\ UNCHANGED <<notWholeVars, w_state, w_opponents, w_trials>>

WholeNext == WholeRaise \/ WholePlanned

\* calls of estimate_equity with the whole deck
WholeSpec == WholeInit /\ [][WholeNext]_vars

\* C12: for one opponent and an empty board the combination count of
\* estimate_equity lies between 1,081 and 1,225, so with the default budget of
\* 2000 trials the call is evaluated by exact enumeration and the returned
\* trials field is that count.
C12_HeadsUpPreflopIsEnumerated ==
    (w_pc = "planned" /\ w_opponents = 1 /\ board_cards(w_state) = <<>>) =>
        /\ 1081 <= w_plan.total_combos
        /\ w_plan.total_combos <= 1225
        /\ w_trials = DefaultTrials =>
              /\ w_plan.run_all
              /\ w_plan.actual_trials = w_plan.total_combos

\* ------------------------------------------------------------------------
\* ml/src/equity.py : describe_made_hand
\* ------------------------------------------------------------------------

\* total_cards = hand.cards + community.cards
total_cards(hand, community) == hand.cards \o community.cards

\* len(total_cards) < 5 with the flop refused too
too_few_cards_flopRefused(cards) == Len(cards) < 6

\* if len(total_cards) < 5: return None
too_few_cards(cards) == Len(cards) < 5

\* remaining = get_remaining_cards(hand.cards + board)
percentile_remaining(hand, community) == get_remaining_cards(hand.cards \o community.cards)

\* total_combos = math.comb(len(remaining), 2)
percentile_total_combos(hand, community) == comb(Len(percentile_remaining(hand, community)), 2)

\* denom = total_combos if run_all else samples
percentile_denom(hand, community, samples) ==
    IF percentile_total_combos(hand, community) <= samples
    THEN percentile_total_combos(hand, community)
    ELSE samples

\* max(0.0, min(1.0, percentile)) of a fraction with a positive denominator
Clamp01(p) ==
    IF p.num < 0 THEN [num |-> 0, den |-> 1]
    ELSE IF p.num > p.den THEN [num |-> 1, den |-> 1]
    ELSE p

\* the percentile with a tie counted as a whole better hand
Percentile_tiesWhole(better, ties, denom) ==
    IF denom = 0 THEN NoPercentile
    ELSE Clamp01([num |-> 2 * denom - 2 * better - 2 * ties, den |-> 2 * denom])

\* percentile = 1 - (better + ties / 2) / denom if denom else None, clamped
Percentile(better, ties, denom) ==
    IF denom = 0 THEN NoPercentile
    ELSE Clamp01([num |-> 2 * denom - 2 * better - ties, den |-> 2 * denom])

HandStrengthDetails(label, category, percentile, score) ==
    [kind |-> "details", label |-> label, category |-> category,
     percentile |-> percentile, score |-> score]

\* the locals of one pass of the loop over iterator
OppCombo(community, combo) ==
    [combo |-> combo, opp_score |-> BestScore(combo \o community.cards)]

\* the hand is dealt as for estimate_equity; the community either follows it
\* in the deal or, not being checked against the hand, starts with the
\* hand's first card
MadeInit ==
    /\ NotMadeIdle
    /\ \E s \in 0..(NumDeals - 1), b \in 0..MaxCommunity, shared \in BOOLEAN :
          LET hand == [cards |-> <<Dealt(s, 1), Dealt(s, 2)>>]
              community == [cards |-> [i \in 1..b |->
                               IF shared /\ i = 1 THEN Dealt(s, 1) ELSE Dealt(s, i + 2)]]
          IN /\ shared => b >= 1
             /\ HandOk(hand.cards)
             /\ CommunityOk(community.cards)
             /\ m_hand = hand
             /\ m_community = community
    /\ m_samples \in 0..MaxPercentileSamples
    /\ \/ too_few_cards(total_cards(m_hand, m_community))
       \/ percentile_total_combos(m_hand, m_community) <= m_samples
       \/ m_samples <= MaxSampled
    /\ m_pc = "call"
    /\ m_score = NoScore
    /\ m_run_all = FALSE
    /\ m_done = 0
    /\ m_better = 0
    /\ m_ties = 0
    /\ m_opp = NoCombo
    /\ m_result = NoDetails

\* if len(total_cards) < 5: return None
MadeReturnNone ==
    /\ m_pc = "call"
    /\ too_few_cards(total_cards(m_hand, m_community))
    /\ m_result' = NoDetails
    /\ m_pc' = "done"
    /\ UNCHANGED <<notMadeVars, m_hand, m_community, m_samples, m_score, m_run_all,
                   m_done, m_better, m_ties, m_opp>>

\* score = evaluate_best_hand(total_cards); the percentile is None at once
\* for a board of fewer than 3 cards or no combos, else its loop is entered
MadeBegin ==
    /\ m_pc = "call"
    /\ ~too_few_cards(total_cards(m_hand, m_community))
    /\ \E score \in {BestScore(total_cards(m_hand, m_community))} :
          /\ m_score' = score
          /\ IF \/ Len(m_community.cards) < 3
                \/ percentile_total_combos(m_hand, m_community) = 0
             THEN /\ m_result' = HandStrengthDetails(_score_to_label(score), score.category,
                                                     NoPercentile, score)
                  /\ m_pc' = "done"
                  /\ m_run_all' = FALSE
             ELSE /\ m_result' = NoDetails
                  /\ m_pc' = "loop"
                  /\ m_run_all' = (percentile_total_combos(m_hand, m_community) <= m_samples)
    /\ m_better' = 0
    /\ m_ties' = 0
    /\ m_done' = 0
    /\ UNCHANGED <<notMadeVars, m_hand, m_community, m_samples, m_opp>>

\* for combo in combinations(remaining, 2): opp_score is computed
MadeEnumerated ==
    /\ m_pc = "loop"
    /\ m_run_all
    /\ LET combos == combinations(percentile_remaining(m_hand, m_community), 2)
       IN /\ m_done < Len(combos)
          /\ m_opp' = OppCombo(m_community, combos[m_done + 1])
    /\ m_done' = m_done + 1
    /\ m_pc' = "scored"
    /\ UNCHANGED <<notMadeVars, m_hand, m_community, m_samples, m_score, m_run_all,
                   m_better, m_ties, m_result>>

\* for combo in (_random_sample(remaining, 2) for _ in range(samples))
MadeSampled ==
    /\ m_pc = "loop"
    /\ ~m_run_all
    /\ m_done < m_samples
    /\ \E combo \in _random_sample(Range(percentile_remaining(m_hand, m_community)), 2) :
          m_opp' = OppCombo(m_community, combo)
    /\ m_done' = m_done + 1
    /\ m_pc' = "scored"
    /\ UNCHANGED <<notMadeVars, m_hand, m_community, m_samples, m_score, m_run_all,
                   m_better, m_ties, m_result>>

\* if opp_score > score: better += 1; elif opp_score == score: ties += 1
MadeCount ==
    /\ m_pc = "scored"
    /\ m_better' = IF HandScoreGreater(m_opp.opp_score, m_score) THEN m_better + 1 ELSE m_better
    /\ m_ties' = IF /\ ~HandScoreGreater(m_opp.opp_score, m_score)
                    /\ HandScoreEq(m_opp.opp_score, m_score)
                 THEN m_ties + 1 ELSE m_ties
    /\ m_opp' = NoCombo
    /\ m_pc' = "loop"
    /\ UNCHANGED <<notMadeVars, m_hand, m_community, m_samples, m_score, m_run_all,
                   m_done, m_result>>

\* the iterator is exhausted: the percentile and the details are returned
MadeReturn ==
    /\ m_pc = "loop"
    /\ m_done = (IF m_run_all THEN percentile_total_combos(m_hand, m_community) ELSE m_samples)
    /\ m_result' = HandStrengthDetails(
                       _score_to_label(m_score), m_score.category,
                       Percentile(m_better, m_ties,
                                  percentile_denom(m_hand, m_community, m_samples)),
                       m_score)
    /\ m_pc' = "done"
    /\ UNCHANGED <<notMadeVars, m_hand, m_community, m_samples, m_score, m_run_all,
                   m_done, m_better, m_ties, m_opp>>

MadeNext ==
    \/ MadeReturnNone \/ MadeBegin \/ MadeEnumerated \/ MadeSampled \/ MadeCount
    \/ MadeReturn

\* calls of describe_made_hand
MadeSpec == MadeInit /\ [][MadeNext]_vars

\* ------------------------------------------------------------------------
\* Properties of describe_made_hand
\* ------------------------------------------------------------------------

\* the label that belongs to a score
LabelOfScore(score) ==
    IF score = HandScore(8, <<14>>) THEN "Royal Flush" ELSE CategoryLabel[score.category + 1]

\* C13 as stated: describe_made_hand returns nothing, without raising,
\* exactly when the community has fewer than 3 cards; with 3, 4 or 5 board
\* cards it returns a result whose category and label are those of
\* evaluate_best_hand on hand + board and whose percentile is present.
C13_PercentileAlwaysPresent ==
    m_pc = "done" =>
        /\ m_result = NoDetails <=> Len(m_community.cards) < 3
        /\ Len(m_community.cards) >= 3 =>
              LET best == evaluate_best_hand(m_hand.cards \o m_community.cards)
              IN /\ m_result.kind = "details"
                 /\ m_result.category = best.score.category
                 /\ m_result.label = LabelOfScore(best.score)
                 /\ m_result.percentile # NoPercentile

\* C13, amended: describe_made_hand returns nothing, without raising, exactly
\* when the community has fewer than 3 cards; with 3, 4 or 5 board cards it
\* returns a result whose category and label are those of evaluate_best_hand
\* on hand + board, and whose percentile is present unless
\* percentile_samples is 0, in which case it is absent.
C13_NothingBeforeFlop ==
    /\ m_pc \in {"idle", "call", "loop", "scored", "done"}
    /\ m_pc = "done" =>
          /\ m_result = NoDetails <=> Len(m_community.cards) < 3
          /\ Len(m_community.cards) >= 3 =>
                LET best == evaluate_best_hand(m_hand.cards \o m_community.cards)
                IN /\ best.ok
                   /\ m_result.kind = "details"
                   /\ m_result.score = best.score
                   /\ m_result.category = best.score.category
                   /\ m_result.label = LabelOfScore(best.score)
                   /\ m_result.percentile = NoPercentile <=> m_samples = 0
                   /\ m_samples # 0 => m_result.percentile.den > 0
    /\ (m_pc \in {"loop", "scored"}) => Len(m_community.cards) >= 3

\* a result on the flop without a percentile, no holding being sampled
C13_Witness ==
    /\ m_pc = "done"
    /\ Len(m_community.cards) = 3
    /\ m_samples = 0
    /\ m_result.kind = "details"
    /\ m_result.percentile = NoPercentile

\* a result on the flop with its percentile
C13_WitnessPercentile ==
    /\ m_pc = "done"
    /\ Len(m_community.cards) = 3
    /\ m_result.kind = "details"
    /\ m_result.percentile.den > 0

\* nothing is returned for a board of two cards
C13_WitnessNone ==
    /\ m_pc = "done"
    /\ Len(m_community.cards) = 2
    /\ m_result = NoDetails

\* the cards that are neither in the player's hand nor on the board
OtherCards == Range(get_full_deck) \ (Range(m_hand.cards) \cup Range(m_community.cards))

\* the score of a 2-card holding on the current board
HoldingScore(H) == BestScore(AsList(H) \o m_community.cards)

\* better and ties over every 2-card holding of the other cards, each once
AllHoldingCounts ==
    LET holdings == KSubsets(OtherCards, 2)
        sc == [H \in holdings |-> HoldingScore(H)]
    IN [better |-> Cardinality({H \in holdings : ScoreBelow(m_score, sc[H])}),
        ties |-> Cardinality({H \in holdings : sc[H] = m_score}),
        count |-> Cardinality(holdings)]

\* C14: the percentile ranges over the 2-card holdings drawn from the cards
\* that are neither in the hand nor on the board, each scored on the current
\* board: when C(remaining, 2) <= samples every holding is counted exactly
\* once and denom = C(remaining, 2), otherwise denom = samples; a percentile
\* that is reported is 1 - (better + ties/2)/denom and lies in [0,1].
C14_PercentileOverOtherHoldings ==
    LET combos == Binomial(Cardinality(OtherCards), 2)
        denom == IF m_run_all THEN combos ELSE m_samples
    IN /\ m_pc \in {"loop", "scored"} => (m_run_all <=> combos <= m_samples)
       /\ m_pc = "scored" =>
             /\ Len(m_opp.combo) = 2
             /\ Range(m_opp.combo) \in KSubsets(OtherCards, 2)
             /\ m_opp.opp_score = HoldingScore(Range(m_opp.combo))
             /\ m_done <= denom
       /\ (m_pc = "done" /\ m_result # NoDetails) =>
             /\ m_done = denom
             /\ m_better + m_ties <= denom
             /\ m_result.percentile = NoPercentile => denom = 0
       /\ (m_pc = "done" /\ m_result # NoDetails /\ m_result.percentile # NoPercentile) =>
             LET p == m_result.percentile
             IN /\ p.den > 0
                /\ p.num * 2 * denom = (2 * denom - 2 * m_better - m_ties) * p.den
                /\ 0 <= p.num /\ p.num <= p.den
                /\ m_run_all =>
                      /\ m_better = AllHoldingCounts.better
                      /\ m_ties = AllHoldingCounts.ties
                      /\ denom = AllHoldingCounts.count

\* an enumerated percentile with better hands, ties and worse hands
C14_Witness ==
    /\ m_pc = "done"
    /\ m_run_all
    /\ m_better > 0
    /\ m_ties > 0
    /\ m_better + m_ties < m_done

\* a sampled percentile
C14_WitnessSampled ==
    /\ m_pc = "done"
    /\ m_result # NoDetails
    /\ ~m_run_all
    /\ m_samples > 0
    /\ m_done = m_samples

\* ------------------------------------------------------------------------
\* Python floats (IEEE 754 binary64, 53 significant bits, round to nearest,
\* ties to even) near short decimals: [c, d, n] is the number
\* c/d + n/(d * 2^60), with c/d the decimal and n the rounding error
\* ------------------------------------------------------------------------

RECURSIVE Pow2(_)
Pow2(k) == IF k = 0 THEN 1 ELSE 2 * Pow2(k - 1)

RECURSIVE Gcd(_, _)
Gcd(a, b) == IF b = 0 THEN a ELSE Gcd(b, a % b)

Lcm(a, b) == (a \div Gcd(a, b)) * b

\* x >= 2^e, for x >= 0
AtLeastPow2(x, e) ==
    LET l == IF e >= 0 THEN x.c ELSE x.c * Pow2(0 - e)
        r == IF e >= 0 THEN x.d * Pow2(e) ELSE x.d
    IN l > r \/ (l = r /\ x.n >= 0)

\* the binary exponent e of x: 2^e <= x < 2^(e+1)
Exponent(x) == CHOOSE e \in -8..3 : AtLeastPow2(x, e) /\ ~AtLeastPow2(x, e + 1)

\* the distance of neighbouring floats at x, 2^(e-52), in units of
\* 1/(d * 2^60)
Ulp(x) == x.d * Pow2(Exponent(x) + 8)

\* (a * 2^k) % m
RECURSIVE ShiftMod(_, _, _)
ShiftMod(a, k, m) ==
    IF k = 0 THEN a % m
    ELSE IF k >= 8 THEN ShiftMod((256 * (a % m)) % m, k - 8, m)
    ELSE ShiftMod((2 * (a % m)) % m, k - 1, m)

\* the float nearest to the number x, ties to the even significand
RoundNearest(x) ==
    IF x.c = 0 /\ x.n = 0 THEN x
    ELSE LET U == Ulp(x)
             r == (ShiftMod(x.c, 60, 2 * U) + (x.n % (2 * U))) % (2 * U)
             low == r % U
             odd == r >= U
             up == 2 * low > U \/ (2 * low = U /\ odd)
         IN Float(x.c, x.d, IF up THEN x.n + (U - low) ELSE x.n - low)

\* a float literal such as 0.38, and the int / int division a / b
FloatOf(a, b) == RoundNearest(Float(a, b, 0))

\* x and y over the common denominator
Over(x, d) == Float(x.c * (d \div x.d), d, x.n * (d \div x.d))

\* x + y
FloatAdd(x, y) ==
    LET d == Lcm(x.d, y.d)
    IN RoundNearest(Float(Over(x, d).c + Over(y, d).c, d, Over(x, d).n + Over(y, d).n))

\* x - y, for x >= y
FloatSub(x, y) ==
    LET d == Lcm(x.d, y.d)
    IN RoundNearest(Float(Over(x, d).c - Over(y, d).c, d, Over(x, d).n - Over(y, d).n))

\* x / k for an int k
FloatDivInt(x, k) == RoundNearest(Float(x.c, x.d * k, x.n))

\* x < y
FloatLess(x, y) ==
    LET d == Lcm(x.d, y.d)
    IN \/ Over(x, d).c < Over(y, d).c
       \/ Over(x, d).c = Over(y, d).c /\ Over(x, d).n < Over(y, d).n

\* x == y
FloatEq(x, y) == ~FloatLess(x, y) /\ ~FloatLess(y, x)

\* x <= y
FloatLeq(x, y) == ~FloatLess(y, x)

FloatMin(x, y) == IF FloatLess(y, x) THEN y ELSE x

FloatMax(x, y) == IF FloatLess(x, y) THEN y ELSE x

\* ------------------------------------------------------------------------
\* ml/src/decision_engine.py : DecisionEngine
\* ------------------------------------------------------------------------

StrategyProfile == {"tight", "balanced", "aggressive"}

\* self._rank_strength
_rank_strength ==
    [r \in Range(valid_ranks) |->
        CASE r = "2" -> FloatOf(5, 100)
          [] r = "3" -> FloatOf(8, 100)
          [] r = "4" -> FloatOf(11, 100)
          [] r = "5" -> FloatOf(14, 100)
          [] r = "6" -> FloatOf(18, 100)
          [] r = "7" -> FloatOf(22, 100)
          [] r = "8" -> FloatOf(26, 100)
          [] r = "9" -> FloatOf(3, 10)
          [] r = "10" -> FloatOf(36, 100)
          [] r = "J" -> FloatOf(42, 100)
          [] r = "Q" -> FloatOf(5, 10)
          [] r = "K" -> FloatOf(58, 100)
          [] r = "A" -> FloatOf(68, 100)]

\* the thresholds of _apply_policy after the profile's shift
fold_thresh(strategy) ==
    IF strategy = "tight" THEN FloatAdd(FloatOf(38, 100), FloatOf(5, 100))
    ELSE IF strategy = "aggressive" THEN FloatSub(FloatOf(38, 100), FloatOf(5, 100))
    ELSE FloatOf(38, 100)

\* raise threshold that the aggressive profile shifts up instead of down
raise_thresh_aggressiveUp(strategy) ==
    IF strategy = "tight" THEN FloatAdd(FloatOf(65, 100), FloatOf(5, 100))
    ELSE IF strategy = "aggressive" THEN FloatAdd(FloatOf(65, 100), FloatOf(8, 100))
    ELSE FloatOf(65, 100)

raise_thresh(strategy) ==
    IF strategy = "tight" THEN FloatAdd(FloatOf(65, 100), FloatOf(5, 100))
    ELSE IF strategy = "aggressive" THEN FloatSub(FloatOf(65, 100), FloatOf(8, 100))
    ELSE FloatOf(65, 100)

FracLess(a, b) == a.num * b.den < b.num * a.den

FracMin(a, b) == IF FracLess(b, a) THEN b ELSE a

FracMax(a, b) == IF FracLess(a, b) THEN b ELSE a

\* 0.5 + (strength - fold_thresh) / (raise_thresh - fold_thresh + 1e-6) * 0.5
call_confidence_steep(strength, fold, raise) ==
    LET d == Lcm(strength.d, 100)
        diff == Over(strength, d).c - Over(fold, d).c
        span == (Over(raise, 100).c - Over(fold, 100).c) * 10000 + 1
        slope == Frac(diff * (1000000 \div d) * 5, span * 10)
    IN Frac(2 * slope.num + slope.den, 2 * slope.den)

\* 0.5 + (strength - fold_thresh) / (raise_thresh - fold_thresh + 1e-6) * 0.3
call_confidence(strength, fold, raise) ==
    LET d == Lcm(strength.d, 100)
        diff == Over(strength, d).c - Over(fold, d).c
        span == (Over(raise, 100).c - Over(fold, 100).c) * 10000 + 1
        slope == Frac(diff * (1000000 \div d) * 3, span * 10)
    IN Frac(2 * slope.num + slope.den, 2 * slope.den)

\* the fold test of _apply_policy
folds_ignoringPotOdds(strength, pot_odds, strategy) ==
    FloatLeq(strength, fold_thresh(strategy))

folds(strength, pot_odds, strategy) ==
    /\ FloatLeq(strength, fold_thresh(strategy))
    /\ (pot_odds = NoFloat \/ FloatLess(strength, pot_odds))

\* the raise test of _apply_policy
raises(strength, strategy) == FloatLeq(raise_thresh(strategy), strength)

_apply_policy(strength, pot_odds, strategy) ==
    IF folds(strength, pot_odds, strategy)
    THEN [action |-> "fold",
          confidence |-> FracMax(Frac(2, 10),
                                 FracMin(Frac(strength.d - strength.c, strength.d), Frac(95, 100)))]
    ELSE IF raises(strength, strategy)
    THEN [action |-> "raise",
          confidence |-> FracMax(Frac(4, 10),
                                 FracMin(Frac(strength.c, strength.d), Frac(95, 100)))]
    ELSE [action |-> "call",
          confidence |-> FracMax(Frac(3, 10),
                                 FracMin(call_confidence(strength, fold_thresh(strategy),
                                                         raise_thresh(strategy)),
                                         Frac(9, 10)))]

\* to_call / (pot_size + to_call), or None
_compute_pot_odds(pot_size, to_call) ==
    IF to_call = None \/ to_call.v <= 0 THEN NoFloat
    ELSE FloatOf(to_call.v, pot_size + to_call.v)

\* ------------------------------------------------------------------------
\* calls of _apply_policy
\* ------------------------------------------------------------------------

\* pot odds to_call / (pot_size + to_call) run over the fractions a/b with
\* b <= MaxOddsDen
MaxOddsDen == 10

\* strength is a number of hundredths in [0, 1]; pot_odds is None or a
\* fraction in (0, 1]
PolicyInit ==
    /\ NotPolicyIdle
    /\ \E k \in 0..100 : p_strength = FloatOf(k, 100)
    /\ \/ p_pot_odds = NoFloat
       \/ \E b \in 1..MaxOddsDen : \E a \in 1..b :
             /\ Gcd(a, b) = 1
             /\ p_pot_odds = FloatOf(a, b)
    /\ p_strategy \in StrategyProfile
    /\ p_pc = "call"
    /\ p_result = NoPolicy

PolicyApply ==
    /\ p_pc = "call"
    /\ p_result' = _apply_policy(p_strength, p_pot_odds, p_strategy)
    /\ p_pc' = "done"
    /\ UNCHANGED <<notPolicyVars, p_strength, p_pot_odds, p_strategy>>

PolicyNext == PolicyApply

PolicySpec == PolicyInit /\ [][PolicyNext]_vars

\* the thresholds (fold, raise) as the specification lists them
ListedFold(strategy) ==
    IF strategy = "tight" THEN FloatOf(43, 100)
    ELSE IF strategy = "aggressive" THEN FloatOf(33, 100)
    ELSE FloatOf(38, 100)

ListedRaise(strategy) ==
    IF strategy = "tight" THEN FloatOf(70, 100)
    ELSE IF strategy = "aggressive" THEN FloatOf(57, 100)
    ELSE FloatOf(65, 100)

\* the action that the listed thresholds give
ListedAction(strength, pot_odds, strategy) ==
    IF /\ FloatLeq(strength, ListedFold(strategy))
       /\ (pot_odds = NoFloat \/ FloatLess(strength, pot_odds))
    THEN "fold"
    ELSE IF FloatLeq(ListedRaise(strategy), strength) THEN "raise"
    ELSE "call"

\* C15: the policy picks one action from the thresholds (fold, raise) =
\* (0.38, 0.65) for balanced, (0.43, 0.70) for tight, (0.33, 0.57) for
\* aggressive: fold iff strength <= fold threshold and (pot odds undefined or
\* strength < pot odds), otherwise raise iff strength >= raise threshold,
\* otherwise call; the fold threshold is below the raise threshold.
C15_ListedThresholds ==
    p_pc = "done" =>
        /\ p_result.action = ListedAction(p_strength, p_pot_odds, p_strategy)
        /\ FloatLess(ListedFold(p_strategy), ListedRaise(p_strategy))

\* ------------------------------------------------------------------------
\* ml/src/decision_engine.py : recommend_action
\* ------------------------------------------------------------------------

\* Community.stage that takes every board of five cards or more for the river
stage_riverAbove(community) ==
    LET n == Len(community.cards)
    IN IF n < 3 THEN "Pre-Flop"
       ELSE IF n = 3 THEN "Flop"
       ELSE IF n = 4 THEN "Turn"
       ELSE "River"

\* Community.stage
stage(community) ==
    LET n == Len(community.cards)
    IN IF n < 3 THEN "Pre-Flop"
       ELSE IF n = 3 THEN "Flop"
       ELSE IF n = 4 THEN "Turn"
       ELSE IF n = 5 THEN "River"
       ELSE "ValueError"

\* max(1, context.num_opponents)
MinOpponents == 1

\* max(200, context.equity_samples)
MinTrials == 200

Max(a, b) == IF a < b THEN b ELSE a

\* the arguments that _maybe_estimate_equity passes to estimate_equity
estimate_opponents_unclamped(context) == context.num_opponents

estimate_opponents(context) == Max(MinOpponents, context.num_opponents)

estimate_trials_unclamped(context) == context.equity_samples

estimate_trials(context) == Max(MinTrials, context.equity_samples)

\* estimate_equity(state, opponents, trials) down to actual_trials; None
\* when it raises ValueError
_maybe_estimate_equity(state, context) ==
    LET plan == WholePlan(state, estimate_opponents(context), estimate_trials(context))
    IN IF plan.kind = "error" THEN NoEstimate ELSE plan

\* sum(...) of floats: 0 + x1 + x2 + ...
RECURSIVE FloatSum(_, _, _)
FloatSum(xs, i, acc) ==
    IF i > Len(xs) THEN acc
    ELSE FloatSum(xs, i + 1, IF i = 1 THEN xs[1] ELSE FloatAdd(acc, xs[i]))

RankStrengths(cards) == [i \in DOMAIN cards |-> _rank_strength[cards[i].rank]]

_has_pair(cards) ==
    Len(cards) # Cardinality({cards[i].rank : i \in DOMAIN cards})

_has_flush_draw(cards) ==
    IF Len(cards) < 4 THEN FALSE
    ELSE \E s \in {cards[i].suit : i \in DOMAIN cards} :
            Cardinality({i \in DOMAIN cards : cards[i].suit = s}) >= 4

\* the loop of _has_straight_draw over the sorted rank indices
RECURSIVE DrawLoop(_, _, _, _)
DrawLoop(indices, i, run, best) ==
    IF i > Len(indices) THEN best
    ELSE IF indices[i] - indices[i - 1] = 1
         THEN DrawLoop(indices, i + 1, run + 1, Max(best, run + 1))
         ELSE DrawLoop(indices, i + 1, 1, best)

_has_straight_draw(cards) ==
    LET index(rank) == CHOOSE k \in DOMAIN valid_ranks : valid_ranks[k] = rank
        indices == SortedAsc({index(cards[i].rank) - 1 : i \in DOMAIN cards})
    IN DrawLoop(indices, 2, 1, 1) >= 4

\* base += bonus, for each bonus of the list in turn
RECURSIVE AddEach(_, _, _)
AddEach(base, bonuses, i) ==
    IF i > Len(bonuses) THEN base
    ELSE AddEach(FloatAdd(base, bonuses[i]), bonuses, i + 1)

\* the bonus of an if statement: added when its condition holds
When(cond, bonus) == IF cond THEN <<bonus>> ELSE <<>>

_estimate_strength(hand, community) ==
    LET board == community.cards
        combined == hand.cards \o board
        hole == When(hand.cards[1].rank = hand.cards[2].rank, FloatOf(2, 10))
                \o When(hand.cards[1].suit = hand.cards[2].suit, FloatOf(5, 100))
        made == <<FloatDivInt(FloatSum(RankStrengths(board), 1, FloatOf(0, 1)), 10)>>
                \o When(_has_pair(combined), FloatOf(5, 100))
                \o When(_has_flush_draw(combined), FloatOf(4, 100))
                \o When(_has_straight_draw(combined), FloatOf(4, 100))
        base == FloatDivInt(FloatSum(RankStrengths(hand.cards), 1, FloatOf(0, 1)), 2)
    IN IF board = <<>> THEN FloatMin(AddEach(base, hole, 1), FloatOf(95, 100))
       ELSE FloatMax(FloatOf(5, 100),
                     FloatMin(AddEach(base, hole \o made, 1), FloatOf(99, 100)))

\* int(pot_size * 0.5) and int(pot_size * 0.75): both products are exact
\* floats, and int() drops the fraction
half_pot(pot_size) == pot_size \div 2

pot_goal_halfPot(pot_size) == pot_size \div 2

pot_goal(pot_size) == (3 * pot_size) \div 4

\* context.min_raise or max(int(state.pot_size * 0.5), 1): None and 0 both
\* give the default
min_raise_or_default(state, context) ==
    IF context.min_raise = None \/ context.min_raise.v = 0
    THEN Max(half_pot(state.pot_size), 1)
    ELSE context.min_raise.v

_suggest_bet(state, context) ==
    Max(min_raise_or_default(state, context), pot_goal(state.pot_size))

\* one string of the rationale: what it is about and the values put in it
Entry(kind, value) == [kind |-> kind, value |-> value]

_strategy_notes(action, profile) ==
    <<Entry("Profile", <<profile>>)>>
    \o (IF profile = "tight" /\ action # "fold" THEN <<Entry("TightNote", <<>>)>> ELSE <<>>)
    \o (IF profile = "aggressive" /\ action # "raise"
        THEN <<Entry("AggressiveNote", <<>>)>> ELSE <<>>)

\* the first two entries: the street, then the equity or the fallback
rationale_head(state, context, equity_info) ==
    <<Entry("Street", <<stage(state.community)>>)>>
    \o (IF equity_info # NoEstimate
        THEN <<Entry("Equity", <<context.num_opponents, equity_info.equity, equity_info.trials>>)>>
        ELSE <<Entry("Fallback", <<>>)>>)

\* equity=strength if equity_info else None
equity_field_always(equity_info, strength) == strength

equity_field(equity_info, strength) ==
    IF equity_info # NoEstimate THEN strength ELSE NoFloat

\* the rationale, the bet and the DecisionResult of recommend_action, given
\* its locals pot_odds and (action, confidence)
recommend_result(state, context, equity_info, strength, pot_odds, policy) ==
    LET bet == IF policy.action = "raise" THEN Some(_suggest_bet(state, context)) ELSE None
        rationale ==
            rationale_head(state, context, equity_info)
            \o <<Entry("Strength", <<strength>>)>>
            \o (IF pot_odds # NoFloat THEN <<Entry("PotOdds", <<pot_odds>>)>> ELSE <<>>)
            \o (IF bet # None /\ bet.v # 0 THEN <<Entry("Bet", <<bet.v>>)>> ELSE <<>>)
            \o _strategy_notes(policy.action, context.strategy_profile)
    IN DecisionResult(policy.action, policy.confidence, bet, rationale,
                      context.strategy_profile, equity_field(equity_info, strength))

\* pot sizes 0..MaxPot
MaxPot == 4

\* context.pot_to_call: None or 0..MaxToCall
MaxToCall == 1

\* context.min_raise: None or 0..MaxMinRaise
MaxMinRaise == 1

\* a number of opponents that leaves too few unseen cards
ManyOpponents == 23

\* the hole cards followed: suited, a pocket pair, unsuited and unpaired
HeroHands ==
    { <<Card("A", "Hearts"), Card("K", "Hearts")>>,
      <<Card("A", "Hearts"), Card("A", "Diamonds")>>,
      <<Card("7", "Clubs"), Card("2", "Diamonds")>> }

\* the share of the scenarios that the hero wins, in percent: which
\* scenarios are won depends on the cards that random.sample draws
WinPercents == {10, 43, 70, 90}

\* float(f) of a fraction [num, den]
FloatOfFrac(f) == FloatOf(f.num \div Gcd(f.num, f.den), f.den \div Gcd(f.num, f.den))

DecisionInit ==
    /\ NotDecisionIdle
    /\ \E cards \in HeroHands, b \in {0, 3, MaxCommunity}, pot \in 0..MaxPot :
          LET hand == [cards |-> cards]
              community == [cards |-> Take(whole_remaining(cards), b)]
          IN /\ HandOk(hand.cards)
             /\ CommunityOk(community.cards)
             /\ PokerGameStateOk(hand, community, 100, pot)
             /\ d_state = PokerGameState(hand, community, 100, pot)
    /\ \E pot_to_call \in {None} \cup {Some(v) : v \in 0..MaxToCall},
          min_raise \in {None} \cup {Some(v) : v \in 0..MaxMinRaise},
          strategy_profile \in StrategyProfile,
          equity_samples \in {0, MinTrials, DefaultTrials},
          num_opponents \in {0, DefaultOpponents, ManyOpponents} :
          d_context = DecisionContext(pot_to_call, min_raise, strategy_profile,
                                      equity_samples, num_opponents)
    /\ d_pc = "call"
    /\ d_call = NoCall
    /\ d_equity_info = NoEstimate
    /\ d_strength = NoFloat
    /\ d_result = NoResult

\* estimate_equity returns: strength is its equity
DecisionEstimate ==
    /\ d_pc = "call"
    /\ \E plan \in {_maybe_estimate_equity(d_state, d_context)} :
          /\ plan # NoEstimate
          /\ \E k \in WinPercents :
                LET wins == (k * plan.actual_trials) \div 100
                    equity == Equity(wins, 0, plan.actual_trials)
                IN /\ wins * 100 = k * plan.actual_trials
                   /\ d_equity_info' = EquityEstimate(equity, wins, 0, plan.actual_trials)
                   /\ d_strength' = FloatOfFrac(equity)
    /\ d_call' = [opponents |-> estimate_opponents(d_context),
                  trials |-> estimate_trials(d_context)]
    /\ d_pc' = "estimated"
    /\ UNCHANGED <<notDecisionVars, d_state, d_context, d_result>>

\* estimate_equity raises ValueError: strength is the heuristic's
DecisionFallback ==
    /\ d_pc = "call"
    /\ _maybe_estimate_equity(d_state, d_context) = NoEstimate
    /\ d_equity_info' = NoEstimate
    /\ d_strength' = _estimate_strength(d_state.player_hand, d_state.community)
    /\ d_call' = [opponents |-> estimate_opponents(d_context),
                  trials |-> estimate_trials(d_context)]
    /\ d_pc' = "estimated"
    /\ UNCHANGED <<notDecisionVars, d_state, d_context, d_result>>

\* pot odds, policy, bet, notes and the DecisionResult
DecisionReturn ==
    /\ d_pc = "estimated"
    /\ \E pot_odds \in {_compute_pot_odds(d_state.pot_size, d_context.pot_to_call)} :
       \E policy \in {_apply_policy(d_strength, pot_odds, d_context.strategy_profile)} :
          d_result' = recommend_result(d_state, d_context, d_equity_info, d_strength,
                                       pot_odds, policy)
    /\ d_pc' = "done"
    /\ UNCHANGED <<notDecisionVars, d_state, d_context, d_call, d_equity_info, d_strength>>

DecisionNext == DecisionEstimate \/ DecisionFallback \/ DecisionReturn

DecisionSpec == DecisionInit /\ [][DecisionNext]_vars

\* C16 as stated: recommend_action falls back to the heuristic only when the
\* equity estimate fails for lack of unseen cards; every other error, in
\* particular the one for context.num_opponents < 1, is propagated and no
\* DecisionResult is returned.
C16_InvalidOpponentsPropagated ==
    /\ (d_pc \in {"estimated", "done"} /\ d_equity_info = NoEstimate) =>
          WholePlan(d_state, d_call.opponents, d_call.trials) = ErrCards
    /\ (d_pc = "done" /\ d_context.num_opponents < 1) => d_result.kind # "result"

\* C16, amended: recommend_action falls back to the heuristic exactly when
\* the equity estimate fails for lack of unseen cards; a
\* context.num_opponents < 1 is no error: the estimate is made against one
\* opponent, and a DecisionResult is returned in every case.
C16_FallbackOnlyForMissingCards ==
    LET opponents == IF d_context.num_opponents < 1 THEN 1 ELSE d_context.num_opponents
        unseen == Len(whole_deck) - Len(d_state.player_hand.cards)
                  - Len(d_state.community.cards)
        needed == 2 * opponents + (MaxCommunity - Len(d_state.community.cards))
    IN /\ d_pc \in {"estimated", "done"} =>
             (d_equity_info = NoEstimate <=> needed > unseen)
       /\ d_pc = "done" =>
             /\ d_result.kind = "result"
             /\ d_result.equity = NoFloat <=> needed > unseen

\* a result for no opponents, with a genuine equity
C16_Witness ==
    /\ d_pc = "done"
    /\ d_context.num_opponents < 1
    /\ d_result.kind = "result"
    /\ d_result.equity # NoFloat

\* a result from the heuristic, for lack of unseen cards
C16_WitnessFallback ==
    /\ d_pc = "done"
    /\ d_context.num_opponents = ManyOpponents
    /\ d_result.kind = "result"
    /\ d_result.equity = NoFloat

\* C17 as stated: the equity estimate attempted by recommend_action uses
\* exactly opponents = context.num_opponents and trials =
\* context.equity_samples, for every value of the two fields.
C17_ContextValuesPassedOn ==
    d_pc \in {"estimated", "done"} =>
        /\ d_call.opponents = d_context.num_opponents
        /\ d_call.trials = d_context.equity_samples

\* C17, amended: the estimate uses opponents = context.num_opponents when
\* that is at least 1 and 1 otherwise, and trials = context.equity_samples
\* when that is at least 200 and 200 otherwise; that number of trials is the
\* budget that decides between enumeration and sampling.
C17_ClampedValuesPassedOn ==
    LET opponents == IF d_context.num_opponents >= 1 THEN d_context.num_opponents ELSE 1
        budget == IF d_context.equity_samples >= 200 THEN d_context.equity_samples ELSE 200
        unseen == Len(whole_deck) - Len(d_state.player_hand.cards)
                  - Len(d_state.community.cards)
        pairs == (unseen * (unseen - 1)) \div 2
    IN d_pc \in {"estimated", "done"} =>
          /\ d_call.opponents = opponents
          /\ d_call.trials = budget
          /\ d_equity_info # NoEstimate =>
                /\ d_equity_info.trials <= budget
                /\ (Len(d_state.community.cards) = MaxCommunity /\ opponents = 1) =>
                      d_equity_info.trials = IF pairs <= budget THEN pairs ELSE budget

\* an estimate for a context that asks for fewer than 200 samples, sampled
\* 200 times
C17_Witness ==
    /\ d_pc = "done"
    /\ d_context.equity_samples < MinTrials
    /\ d_equity_info # NoEstimate
    /\ d_equity_info.trials = MinTrials

\* an estimate on the river that enumerates, the budget being the context's
C17_WitnessEnumerated ==
    /\ d_pc = "done"
    /\ d_context.equity_samples = DefaultTrials
    /\ d_equity_info # NoEstimate
    /\ d_equity_info.trials < d_call.trials

\* round(num / den) as Python rounds: to the nearest integer, a tie to the
\* even one
RoundHalfEven(num, den) ==
    LET low == num \div den
        rest == 2 * (num % den)
    IN IF rest < den THEN low
       ELSE IF rest > den THEN low + 1
       ELSE IF low % 2 = 0 THEN low ELSE low + 1

\* C18 as stated: whenever recommend_action returns raise, recommended_bet =
\* max(min_raise, round(0.75 * pot)) for every supplied min_raise, hence
\* recommended_bet >= min_raise; whenever it returns fold or call,
\* recommended_bet is absent.
C18_BetFromRoundedPot ==
    d_pc = "done" =>
        /\ (d_result.action = "raise" /\ d_context.min_raise # None) =>
              /\ d_result.recommended_bet # None
              /\ d_result.recommended_bet.v =
                    Max(d_context.min_raise.v, RoundHalfEven(3 * d_state.pot_size, 4))
              /\ d_result.recommended_bet.v >= d_context.min_raise.v
        /\ d_result.action \in {"fold", "call"} => d_result.recommended_bet = None

\* C18, amended: whenever recommend_action returns raise, recommended_bet =
\* max(m, floor(0.75 * pot)), where m is min_raise if a min_raise other than 0
\* is supplied and max(floor(0.5 * pot), 1) if min_raise is absent or 0;
\* hence recommended_bet >= min_raise for every supplied min_raise; whenever
\* it returns fold or call, recommended_bet is absent.
C18_BetFromTruncatedPot ==
    LET pot == d_state.pot_size
        three_quarters == CHOOSE g \in 0..pot : 4 * g <= 3 * pot /\ 3 * pot < 4 * (g + 1)
        half == CHOOSE g \in 0..pot : 2 * g <= pot /\ pot < 2 * (g + 1)
        supplied == d_context.min_raise # None /\ d_context.min_raise.v # 0
        m == IF supplied THEN d_context.min_raise.v
             ELSE IF half >= 1 THEN half ELSE 1
    IN d_pc = "done" =>
          /\ d_result.action = "raise" =>
                /\ d_result.recommended_bet # None
                /\ d_result.recommended_bet.v = (IF m >= three_quarters THEN m ELSE three_quarters)
                /\ d_context.min_raise # None =>
                      d_result.recommended_bet.v >= d_context.min_raise.v
          /\ d_result.action \in {"fold", "call"} => d_result.recommended_bet = None

\* a raise where three quarters of the pot is not a whole number and exceeds
\* the supplied min_raise
C18_Witness ==
    /\ d_pc = "done"
    /\ d_result.action = "raise"
    /\ d_state.pot_size = 3
    /\ d_context.min_raise = Some(1)
    /\ d_result.recommended_bet = Some(2)

\* a raise with min_raise supplied as 0: the default takes its place
C18_WitnessZero ==
    /\ d_pc = "done"
    /\ d_result.action = "raise"
    /\ d_state.pot_size = 0
    /\ d_context.min_raise = Some(0)
    /\ d_result.recommended_bet = Some(1)

\* C19 as stated: with the tight profile a strength of 0.10 yields fold,
\* whether no pot odds are supplied or any pot odds in (0, 1] are supplied.
C19_TightWeakHandFolds ==
    (p_pc = "done" /\ p_strategy = "tight" /\ FloatEq(p_strength, FloatOf(10, 100))) =>
        p_result.action = "fold"

\* C19, amended: with the tight profile a strength of 0.10 yields fold when
\* no pot odds are supplied or the pot odds are above 0.10, and call when the
\* pot odds are in (0, 0.10].
C19_TightWeakHandFoldsAbovePotOdds ==
    (p_pc = "done" /\ p_strategy = "tight" /\ FloatEq(p_strength, FloatOf(10, 100))) =>
        IF p_pot_odds = NoFloat \/ p_pot_odds.c * 10 > p_pot_odds.d
        THEN p_result.action = "fold"
        ELSE p_result.action = "call"

\* strength 0.10 is folded against pot odds of one half
C19_Witness ==
    /\ p_pc = "done"
    /\ p_strategy = "tight"
    /\ p_strength = FloatOf(10, 100)
    /\ p_pot_odds = FloatOf(1, 2)
    /\ p_result.action = "fold"

\* strength 0.10 is called against pot odds of one tenth
C19_WitnessCall ==
    /\ p_pc = "done"
    /\ p_strategy = "tight"
    /\ p_strength = FloatOf(10, 100)
    /\ p_pot_odds = FloatOf(1, 10)
    /\ p_result.action = "call"

\* the kinds of the rationale's entries, in order
Kinds(rationale) == [i \in DOMAIN rationale |-> rationale[i].kind]

\* the entries after the effective strength, as the kinds of a result with
\* pot odds or not, a bet entry or not, and the notes of the profile
AfterStrength(odds, bet, notes) ==
    (IF odds THEN <<"PotOdds">> ELSE <<>>) \o (IF bet THEN <<"Bet">> ELSE <<>>) \o notes

NoteKinds == {<<"Profile">>, <<"Profile", "TightNote">>, <<"Profile", "AggressiveNote">>}

\* C20: the rationale is ordered: the street, then exactly one of the equity
\* entry and the fallback entry, then the effective strength, then the
\* pot-odds entry iff pot odds are defined, then the suggested-bet entry only
\* when raising, then the profile notes; the equity field is present iff the
\* equity entry is in the rationale, and whenever the heuristic was used the
\* equity field is absent and the rationale holds the fallback flag.
C20_RationaleOrder ==
    d_pc = "done" =>
        LET kinds == Kinds(d_result.rationale)
            odds == /\ d_context.pot_to_call # None
                    /\ d_context.pot_to_call.v > 0
            genuine == \E i \in DOMAIN kinds : kinds[i] = "Equity"
            flagged == \E i \in DOMAIN kinds : kinds[i] = "Fallback"
        IN /\ Len(kinds) >= 4
           /\ kinds[1] = "Street"
           /\ kinds[2] \in {"Equity", "Fallback"}
           /\ kinds[3] = "Strength"
           /\ \E bet \in BOOLEAN, notes \in NoteKinds :
                 /\ bet => d_result.action = "raise"
                 /\ kinds = <<"Street", kinds[2], "Strength">> \o AfterStrength(odds, bet, notes)
           /\ d_result.equity # NoFloat <=> genuine
           /\ d_equity_info = NoEstimate => (d_result.equity = NoFloat /\ flagged)
           /\ d_result.rationale[3].value = <<d_strength>>

\* a raise on an estimate, with pot odds and a bet in the rationale
C20_Witness ==
    /\ d_pc = "done"
    /\ d_result.action = "raise"
    /\ Kinds(d_result.rationale) = <<"Street", "Equity", "Strength", "PotOdds", "Bet", "Profile">>
    /\ d_result.equity # NoFloat

\* a result of the heuristic: the fallback flag and no equity
C20_WitnessFallback ==
    /\ d_pc = "done"
    /\ d_equity_info = NoEstimate
    /\ Kinds(d_result.rationale)[2] = "Fallback"
    /\ d_result.equity = NoFloat

\* a fraction in lowest terms
Lowest(f) ==
    LET g == Gcd(IF f.num < 0 THEN 0 - f.num ELSE f.num, f.den)
    IN Frac(f.num \div g, f.den \div g)

\* a <= b, for fractions
FracLeq(a, b) == ~FracLess(b, a)

\* the confidence on the line from 0.5 at the fold threshold to 0.8 at the
\* raise threshold, the thresholds in hundredths
OnTheLine(strength, fold, raise) ==
    Frac(5 * (raise - fold) + 3 * (strength - fold), 10 * (raise - fold))

\* |a - b| < 1/100000, for fractions in lowest terms
Near(a, b) ==
    LET diff == a.num * b.den - b.num * a.den
    IN (IF diff < 0 THEN 0 - diff ELSE diff) <= (a.den * b.den - 1) \div 100000

\* C21: the confidence returned by the policy lies in [0.20, 0.95] for fold,
\* in [0.40, 0.95] for raise and in [0.30, 0.90] for call, hence in [0, 1];
\* for a call with strength between the two thresholds it lies on the line
\* from 0.5 at the fold threshold towards 0.8 at the raise threshold.
C21_ConfidenceRanges ==
    p_pc = "done" =>
        LET conf == Lowest(p_result.confidence)
            fold == Over(ListedFold(p_strategy), 100).c
            raise == Over(ListedRaise(p_strategy), 100).c
            strength == Over(p_strength, 100).c
        IN /\ FracLeq(Frac(0, 1), conf) /\ FracLeq(conf, Frac(1, 1))
           /\ p_result.action = "fold" =>
                 FracLeq(Frac(20, 100), conf) /\ FracLeq(conf, Frac(95, 100))
           /\ p_result.action = "raise" =>
                 FracLeq(Frac(40, 100), conf) /\ FracLeq(conf, Frac(95, 100))
           /\ p_result.action = "call" =>
                 FracLeq(Frac(30, 100), conf) /\ FracLeq(conf, Frac(90, 100))
           /\ (p_result.action = "call" /\ fold <= strength /\ strength <= raise) =>
                 /\ Near(conf, OnTheLine(strength, fold, raise))
                 /\ FracLeq(Frac(5, 10), conf) /\ FracLeq(conf, Frac(8, 10))

\* a call half way between the balanced thresholds, with a confidence
\* strictly between 0.5 and 0.8
C21_Witness ==
    /\ p_pc = "done"
    /\ p_strategy = "balanced"
    /\ p_strength = FloatOf(50, 100)
    /\ p_result.action = "call"
    /\ FracLess(Frac(5, 10), p_result.confidence)
    /\ FracLess(p_result.confidence, Frac(8, 10))

\* a fold whose confidence 1 - strength is cut to 0.95
C21_WitnessCeiling ==
    /\ p_pc = "done"
    /\ p_strength = FloatOf(0, 100)
    /\ p_result.action = "fold"
    /\ Lowest(p_result.confidence) = Frac(19, 20)

\* fold < call < raise
ActionRank(action) ==
    CASE action = "fold" -> 0
      [] action = "call" -> 1
      [] action = "raise" -> 2

\* tight, balanced, aggressive in this order
ProfileRank(strategy) ==
    CASE strategy = "tight" -> 0
      [] strategy = "balanced" -> 1
      [] strategy = "aggressive" -> 2

\* C29: the action chosen by the policy is monotone, ranking fold < call <
\* raise: for a fixed profile and pot-odds input the next higher strength
\* never yields a lower action, and for a fixed strength and pot-odds input
\* a profile further towards aggressive never yields a lower action.
C29_ActionMonotone ==
    p_pc = "done" =>
        LET k == Over(p_strength, 100).c
        IN /\ k < 100 =>
                ActionRank(_apply_policy(FloatOf(k + 1, 100), p_pot_odds, p_strategy).action)
                    >= ActionRank(p_result.action)
           /\ \A other \in StrategyProfile :
                ProfileRank(other) > ProfileRank(p_strategy) =>
                    ActionRank(_apply_policy(p_strength, p_pot_odds, other).action)
                        >= ActionRank(p_result.action)

\* strength 0.60 without pot odds: a call under tight, a raise under
\* aggressive
C29_MonotoneWitness ==
    /\ p_pc = "done"
    /\ p_strategy = "tight"
    /\ p_strength = FloatOf(60, 100)
    /\ p_pot_odds = NoFloat
    /\ p_result.action = "call"
    /\ _apply_policy(p_strength, p_pot_odds, "aggressive").action = "raise"

\* strength 0.38 under balanced folds, the next strength calls
C29_WitnessStrength ==
    /\ p_pc = "done"
    /\ p_strategy = "balanced"
    /\ p_strength = FloatOf(38, 100)
    /\ p_pot_odds = NoFloat
    /\ p_result.action = "fold"
    /\ _apply_policy(FloatOf(39, 100), p_pot_odds, p_strategy).action = "call"

\* ------------------------------------------------------------------------
\* utils/models.py : building Hand, Community and PokerGameState, asking a
\* Community for its stage, and the deck functions
\* ------------------------------------------------------------------------

\* the card lists handed to the constructors are made of the first
\* PoolCards cards of the deck
PoolCards == 7

\* chips and pot are drawn from -1..MaxMoney
MaxMoney == 1

\* get_remaining_cards is called with up to MaxUsed cards, picked from the
\* deck at MaxOffset + 1 places
MaxUsed == 3

MaxOffset == 1

\* raise ValueError(...)
Raised == [kind |-> "ValueError"]

\* n cards of the deck in a row, after the first o
Run(o, n) == SubSeq(whole_deck, o + 1, o + n)

\* the list with its last card replaced by its first
Twice(list) == [list EXCEPT ![Len(list)] = list[1]]

DistinctLists == {Run(o, n) : o \in {0, 1, HandSize}, n \in 0..PoolCards}

CardLists == DistinctLists \cup {Twice(l) : l \in {d \in DistinctLists : Len(d) >= 2}}

\* n cards of the deck, no card twice
Used(o, n) == [i \in 1..n |-> whole_deck[((o + 7 * i) % Len(whole_deck)) + 1]]

ModelInit ==
    /\ NotModelIdle
    /\ k_call = [op |-> "idle"]
    /\ k_out = NoObject
    /\ k_hand = NoObject
    /\ k_community = NoObject

\* Hand(cards=cards)
NewHand ==
    \E cards \in {l \in CardLists : Len(l) <= HandSize + 1} :
        /\ k_call' = [op |-> "Hand", cards |-> cards]
        /\ IF HandOk(cards)
           THEN /\ k_out' = [cards |-> cards]
                /\ k_hand' = [cards |-> cards]
           ELSE /\ k_out' = Raised
                /\ UNCHANGED k_hand
        /\ UNCHANGED <<notModelVars, k_community>>

\* Community(cards=cards)
NewCommunity ==
    \E cards \in CardLists :
        /\ k_call' = [op |-> "Community", cards |-> cards]
        /\ IF CommunityOk(cards)
           THEN /\ k_out' = [cards |-> cards]
                /\ k_community' = [cards |-> cards]
           ELSE /\ k_out' = Raised
                /\ UNCHANGED k_community
        /\ UNCHANGED <<notModelVars, k_hand>>

\* object.__setattr__(community, "cards", cards)
SetCards ==
    /\ k_community # NoObject
    /\ \E cards \in DistinctLists :
           /\ k_call' = [op |-> "setattr", cards |-> cards]
           /\ k_community' = [cards |-> cards]
    /\ k_out' = NoObject
    /\ UNCHANGED <<notModelVars, k_hand>>

\* PokerGameState(player_hand=hand, community=community, player_chips=chips,
\* pot_size=pot)
NewState ==
    /\ k_hand # NoObject
    /\ k_community # NoObject
    /\ \E chips \in -1..MaxMoney, pot \in -1..MaxMoney :
           /\ k_call' = [op |-> "PokerGameState", hand |-> k_hand,
                         community |-> k_community, chips |-> chips, pot |-> pot]
           /\ k_out' = IF PokerGameStateOk(k_hand, k_community, chips, pot)
                       THEN PokerGameState(k_hand, k_community, chips, pot)
                       ELSE Raised
    /\ UNCHANGED <<notModelVars, k_hand, k_community>>

\* community.stage()
CallStage ==
    /\ k_community # NoObject
    /\ k_call' = [op |-> "stage", community |-> k_community]
    /\ k_out' = stage(k_community)
    /\ UNCHANGED <<notModelVars, k_hand, k_community>>

\* get_full_deck()
CallFullDeck ==
    /\ k_call' = [op |-> "get_full_deck", before |-> k_call.op]
    /\ k_out' = whole_deck
    /\ UNCHANGED <<notModelVars, k_hand, k_community>>

\* get_remaining_cards(used)
CallRemaining ==
    /\ \E o \in 0..MaxOffset, n \in 0..MaxUsed :
           /\ k_call' = [op |-> "get_remaining_cards", used |-> Used(o, n),
                         before |-> k_call.op]
           /\ k_out' = whole_remaining(Used(o, n))
    /\ UNCHANGED <<notModelVars, k_hand, k_community>>

ModelNext ==
    \/ NewHand
    \/ NewCommunity
    \/ SetCards
    \/ NewState
    \/ CallStage
    \/ CallFullDeck
    \/ CallRemaining

ModelSpec == ModelInit /\ [][ModelNext]_vars

\* no two places of the list hold the same card
Distinct(list) == \A i, j \in DOMAIN list : i # j => list[i] # list[j]

\* C22: construction of Hand, Community and PokerGameState succeeds iff the
\* invariants hold, and otherwise fails without yielding an object: a Hand
\* needs exactly 2 distinct cards, a Community at most 5 cards and no
\* duplicates, a PokerGameState chips >= 0, pot >= 0 and no card shared
\* between hand and community; zero chips and zero pot are accepted.
C22_ConstructionIffInvariants ==
    /\ k_call.op = "Hand" =>
          IF Len(k_call.cards) = 2 /\ k_call.cards[1] # k_call.cards[2]
          THEN k_out = [cards |-> k_call.cards]
          ELSE k_out = Raised
    /\ k_call.op = "Community" =>
          IF Len(k_call.cards) <= 5 /\ Distinct(k_call.cards)
          THEN k_out = [cards |-> k_call.cards]
          ELSE k_out = Raised
    /\ k_call.op = "PokerGameState" =>
          IF /\ k_call.chips >= 0
             /\ k_call.pot >= 0
             /\ Range(k_call.hand.cards) \cap Range(k_call.community.cards) = {}
          THEN k_out = [player_hand |-> k_call.hand,
                        community |-> k_call.community,
                        player_chips |-> k_call.chips,
                        pot_size |-> k_call.pot]
          ELSE k_out = Raised

\* a PokerGameState built with zero chips and zero pot
C22_Witness ==
    /\ k_call.op = "PokerGameState"
    /\ k_call.chips = 0
    /\ k_call.pot = 0
    /\ k_out # Raised
    /\ k_out.player_chips = 0

\* a PokerGameState refused for a card that is in the hand and on the board
C22_WitnessShared ==
    /\ k_call.op = "PokerGameState"
    /\ k_call.chips >= 0
    /\ k_call.pot >= 0
    /\ k_out = Raised

\* a Community of six distinct cards is refused
C22_WitnessSix ==
    /\ k_call.op = "Community"
    /\ Len(k_call.cards) = 6
    /\ Distinct(k_call.cards)
    /\ k_out = Raised

\* C23: Community.stage classifies by card count: 0, 1 or 2 cards give
\* Pre-Flop, 3 Flop, 4 Turn, 5 River; with more than 5 cards (a Community
\* whose card list was replaced after it was built) stage fails instead of
\* returning River or any other stage.
C23_StageByCount ==
    k_call.op = "stage" =>
        LET n == Len(k_call.community.cards)
        IN /\ n \in {0, 1, 2} => k_out = "Pre-Flop"
           /\ n = 3 => k_out = "Flop"
           /\ n = 4 => k_out = "Turn"
           /\ n = 5 => k_out = "River"
           /\ n > 5 => /\ k_out \notin {"Pre-Flop", "Flop", "Turn", "River"}
                       /\ k_out = "ValueError"

\* stage fails on a Community that was given six cards after it was built
C23_Witness ==
    /\ k_call.op = "stage"
    /\ Len(k_call.community.cards) = 6
    /\ k_out = "ValueError"

\* the river
C23_WitnessRiver ==
    /\ k_call.op = "stage"
    /\ Len(k_call.community.cards) = 5
    /\ k_out = "River"

\* two cards are still before the flop
C23_WitnessTwo ==
    /\ k_call.op = "stage"
    /\ Len(k_call.community.cards) = 2
    /\ k_out = "Pre-Flop"

\* the cross product of the 13 ranks and the 4 suits
CrossProduct ==
    {Card(rank, suit) :
        rank \in {"2", "3", "4", "5", "6", "7", "8", "9", "10", "J", "Q", "K", "A"},
        suit \in {"Hearts", "Diamonds", "Clubs", "Spades"}}

\* C24: get_full_deck always returns 52 pairwise distinct cards, the full
\* cross product of 13 ranks and 4 suits; for every list `used` of distinct
\* deck cards, get_remaining_cards(used) has exactly 52 - |used| cards,
\* contains no used card and contains every unused card; this whatever was
\* called before.
C24_DeckAndRemaining ==
    /\ k_call.op = "get_full_deck" =>
          /\ Len(k_out) = 52
          /\ Distinct(k_out)
          /\ Range(k_out) = CrossProduct
    /\ k_call.op = "get_remaining_cards" =>
          /\ Len(k_out) = 52 - Len(k_call.used)
          /\ Distinct(k_out)
          /\ Range(k_out) \cap Range(k_call.used) = {}
          /\ CrossProduct \ Range(k_call.used) \subseteq Range(k_out)

\* get_remaining_cards of two cards, called right after another
\* get_remaining_cards, returns 50 cards
C24_Witness ==
    /\ k_call.op = "get_remaining_cards"
    /\ k_call.before = "get_remaining_cards"
    /\ Len(k_call.used) = 2
    /\ Len(k_out) = 50

\* get_full_deck called after get_remaining_cards returns all 52 cards
C24_WitnessDeck ==
    /\ k_call.op = "get_full_deck"
    /\ k_call.before = "get_remaining_cards"
    /\ Len(k_out) = 52

\* ------------------------------------------------------------------------
\* cv/src/card_parser.py : parse_card_label
\* A label is the list of its characters; a token is such a list too, and
\* Join makes the string of it.  The four suit symbols of SUIT_ALIASES are
\* written by their code points.
\* ------------------------------------------------------------------------

UpperLetters ==
    <<"A", "B", "C", "D", "E", "F", "G", "H", "I", "J", "K", "L", "M",
      "N", "O", "P", "Q", "R", "S", "T", "U", "V", "W", "X", "Y", "Z">>

LowerLetters ==
    <<"a", "b", "c", "d", "e", "f", "g", "h", "i", "j", "k", "l", "m",
      "n", "o", "p", "q", "r", "s", "t", "u", "v", "w", "x", "y", "z">>

Digits == {"0", "1", "2", "3", "4", "5", "6", "7", "8", "9"}

IndexOf(list, x) == CHOOSE i \in DOMAIN list : list[i] = x

\* str.upper, one character
UpperChar(ch) ==
    IF ch \in Range(LowerLetters) THEN UpperLetters[IndexOf(LowerLetters, ch)] ELSE ch

\* str.lower, one character
LowerChar(ch) ==
    IF ch \in Range(UpperLetters) THEN LowerLetters[IndexOf(UpperLetters, ch)] ELSE ch

Upper(chars) == [i \in DOMAIN chars |-> UpperChar(chars[i])]

Lower(chars) == [i \in DOMAIN chars |-> LowerChar(chars[i])]

\* the string of a list of characters
RECURSIVE Join(_)
Join(chars) == IF chars = <<>> THEN "" ELSE chars[1] \o Join(Tail(chars))

\* \s of the regular expressions, for the characters of the labels
Whitespace == {" "}

\* str.strip
RECURSIVE Strip(_)
Strip(chars) ==
    IF chars = <<>> THEN chars
    ELSE IF chars[1] \in Whitespace THEN Strip(Tail(chars))
    ELSE IF chars[Len(chars)] \in Whitespace THEN Strip(SubSeq(chars, 1, Len(chars) - 1))
    ELSE chars

RANK_ALIASES ==
    [token \in {"2", "3", "4", "5", "6", "7", "8", "9", "10", "T", "J", "JACK",
                "Q", "QUEEN", "K", "KING", "A", "ACE"} |->
        CASE token = "T" -> "10"
          [] token = "JACK" -> "J"
          [] token = "QUEEN" -> "Q"
          [] token = "KING" -> "K"
          [] token = "ACE" -> "A"
          [] OTHER -> token]

\* the values are the symbols U+2665, U+2666, U+2663 and U+2660
SUIT_ALIASES ==
    [token \in {"H", "HEART", "HEARTS", "D", "DIAMOND", "DIAMONDS",
                "C", "CLUB", "CLUBS", "S", "SPADE", "SPADES"} |->
        CASE token \in {"H", "HEART", "HEARTS"} -> "U+2665"
          [] token \in {"D", "DIAMOND", "DIAMONDS"} -> "U+2666"
          [] token \in {"C", "CLUB", "CLUBS"} -> "U+2663"
          [] OTHER -> "U+2660"]

\* Card(rank=rank, suit=suit) for an upper-case rank and a suit that strip
\* and capitalize leave as it is; a ValueError is Raised
NewCard(rank, suit) ==
    IF rank \notin Range(valid_ranks) THEN Raised
    ELSE IF suit \notin Range(valid_suits) THEN Raised
    ELSE Card(rank, suit)

_build_card(rank_token, suit_token) ==
    LET rank_key == Join(Upper(rank_token))
        suit_key == Join(Upper(suit_token))
        rank == IF rank_key \in DOMAIN RANK_ALIASES THEN RANK_ALIASES[rank_key] ELSE rank_key
    IN IF suit_key \notin DOMAIN SUIT_ALIASES THEN NoCard
       ELSE IF NewCard(rank, SUIT_ALIASES[suit_key]) = Raised THEN NoCard
       ELSE NewCard(rank, SUIT_ALIASES[suit_key])

\* re.sub(r"[^0-9A-Za-z]", "", label).upper()
Compact(label) ==
    LET alnum(ch) == ch \in Digits \cup Range(UpperLetters) \cup Range(LowerLetters)
    IN Upper(SelectSeq(label, alnum))

_parse_compact_form(label) ==
    LET compact == Compact(label)
        suits == {"C", "D", "H", "S"}
        ranks == (Digits \ {"0", "1"}) \cup {"T", "J", "Q", "K", "A"}
    IN IF compact = <<>> THEN NoCard
       ELSE IF Len(compact) = 3 /\ compact[1] = "1" /\ compact[2] = "0" /\ compact[3] \in suits
            THEN _build_card(<<"1", "0">>, <<compact[3]>>)
       ELSE IF Len(compact) = 2 /\ compact[1] \in ranks /\ compact[2] \in suits
            THEN _build_card(<<compact[1]>>, <<compact[2]>>)
       ELSE NoCard

\* re.split(r"[\s_/-]+", chars): the pieces between the runs of separators,
\* an empty piece at an end where the list begins or ends with a separator
RECURSIVE SplitLoop(_, _, _)
SplitLoop(chars, piece, after_separator) ==
    LET separator(ch) == ch \in Whitespace \cup {"_", "/", "-"}
    IN IF chars = <<>> THEN <<piece>>
       ELSE IF separator(chars[1])
            THEN IF after_separator
                 THEN SplitLoop(Tail(chars), piece, TRUE)
                 ELSE <<piece>> \o SplitLoop(Tail(chars), <<>>, TRUE)
       ELSE SplitLoop(Tail(chars), Append(piece, chars[1]), FALSE)

\* [tok for tok in tokens if tok and tok not in {"of", "the"}]
Tokens(label_clean) ==
    LET kept(tok) == tok # <<>> /\ Join(tok) \notin {"of", "the"}
    IN SelectSeq(SplitLoop(Lower(label_clean), <<>>, FALSE), kept)

\* the first token found in the aliases, None ("") if there is none
RECURSIVE FindAlias(_, _)
FindAlias(tokens, aliases) ==
    IF tokens = <<>> THEN ""
    ELSE IF Join(Upper(tokens[1])) \in DOMAIN aliases THEN aliases[Join(Upper(tokens[1]))]
    ELSE FindAlias(Tail(tokens), aliases)

\* "1" is skipped, and is no key of RANK_ALIASES either
_find_rank(tokens) == FindAlias(tokens, RANK_ALIASES)

_find_suit(tokens) == FindAlias(tokens, SUIT_ALIASES)

\* the characters of the string _find_rank or _find_suit returned
Chars(token) == IF token = "10" THEN <<"1", "0">> ELSE <<token>>

parse_card_label(label) ==
    LET label_clean == Strip(label)
        card == _parse_compact_form(label_clean)
        tokens == Tokens(label_clean)
        rank == _find_rank(tokens)
        suit == _find_suit(tokens)
    IN IF label = <<>> THEN NoCard
       ELSE IF card # NoCard THEN card
       ELSE IF tokens = <<>> THEN NoCard
       ELSE IF rank # "" /\ suit # "" THEN _build_card(Chars(rank), <<suit>>)
       ELSE NoCard

\* Card.__str__: f"{self.rank}{self.suit[0].upper()}", as a list of characters
Str(card) ==
    Chars(card.rank) \o
    <<CASE card.suit = "Hearts" -> "H"
        [] card.suit = "Diamonds" -> "D"
        [] card.suit = "Clubs" -> "C"
        [] card.suit = "Spades" -> "S">>

CanonicalLabels == {Str(whole_deck[i]) : i \in DOMAIN whole_deck}

OtherLabels ==
    {<<>>, <<" ">>, <<"X", "X">>, <<"1", "S">>, <<"T", "S">>, <<"1", "1", "H">>,
     <<" ", "A", "S", " ">>, <<"A", "-", "S">>, <<"A", "U+2660">>,
     <<"a", "c", "e", " ", "o", "f", " ", "s", "p", "a", "d", "e", "s">>,
     <<"K", "i", "n", "g", "_", "H", "e", "a", "r", "t", "s">>,
     <<"1", "0", " ", "d", "i", "a", "m", "o", "n", "d", "s">>,
     <<"t", "h", "e", " ", "q", "u", "e", "e", "n">>,
     <<"-", "7", "/", "c", "l", "u", "b", "-">>}

ParseInit ==
    /\ NotParseIdle
    /\ l_label \in CanonicalLabels \cup {Lower(l) : l \in CanonicalLabels} \cup OtherLabels
    /\ l_pc = "call"
    /\ l_card = NoCard

Parse ==
    /\ l_pc = "call"
    /\ l_card' = parse_card_label(l_label)
    /\ l_pc' = "done"
    /\ UNCHANGED <<notParseVars, l_label>>

ParseNext == Parse

ParseSpec == ParseInit /\ [][ParseNext]_vars

\* C28: for every card c of the 52-card deck, parse_card_label(str(c))
\* returns a Card equal to c; for a label it cannot parse it returns none,
\* and it never returns a Card outside the 52-card deck.
C28_RoundTrip ==
    l_pc = "done" =>
        /\ \A c \in CrossProduct : l_label = Str(c) => l_card = c
        /\ l_card = NoCard \/ l_card \in CrossProduct

\* ------------------------------------------------------------------------
\* app.py, views/upload_page.py, views/confirmation_page.py : the pages and
\* st.session_state.  One action is one run of the script, with the values
\* the widgets hand back and the button that was pressed, if any.
\* ------------------------------------------------------------------------

\* the multiselect of the hand hands back 0..MaxSelected cards
MaxSelected == 3

\* st.session_state[key] = v
Put(session, key, v) == [session EXCEPT ![key] = In(v)]

\* del st.session_state[key]
Del(session, key) == [session EXCEPT ![key] = EmptySession[key]]

RECURSIVE DelAll(_, _)
DelAll(session, keys) ==
    IF keys = <<>> THEN session
    ELSE DelAll(IF session[keys[1]].in THEN Del(session, keys[1]) ELSE session, Tail(keys))

\* what a button handler leaves: the session, the st.error message and the
\* st.toast messages
Handled(session, error, toasts) == [session |-> session, error |-> error, toasts |-> toasts]

\* if 'detected_hand' not in st.session_state: ...
DetectHand(session, random_hand) ==
    IF session.detected_hand.in THEN session
    ELSE IF session.detected_cards.in /\ Len(session.detected_cards.v) >= 2
         THEN Put(session, "detected_hand",
                  [cards |-> SubSeq(session.detected_cards.v, 1, 2)])
    ELSE Put(session, "detected_hand", random_hand)

\* Confirm Hand that takes the first two of two cards or more
ConfirmHand_firstTwo(session, selected_cards) ==
    IF Len(selected_cards) < 2
    THEN Handled(session, "Please select exactly 2 cards.", {})
    ELSE Handled(Put(session, "player_hand", [cards |-> SubSeq(selected_cards, 1, 2)]),
                 "", {"Hand confirmed successfully!"})

\* if st.button("Confirm Hand"): ...
ConfirmHand(session, selected_cards) ==
    IF Len(selected_cards) # 2
    THEN Handled(session, "Please select exactly 2 cards.", {})
    ELSE Handled(Put(session, "player_hand", [cards |-> selected_cards]),
                 "", {"Hand confirmed successfully!"})

\* Retry Analysis that keeps the recommendation
RetryAnalysis_keepsResult(session) ==
    LET paged == Put(session, "current_page", "upload")
        cleared == DelAll(paged, <<"detected_hand", "selected_cards", "player_hand",
                                   "community_cards", "player_stack",
                                   "pot_size", "amount_to_call", "min_raise",
                                   "strategy_profile", "opponent_notes",
                                   "detected_cards", "num_opponents">>)
        camera == IF cleared.camera_photo_captured.in
                  THEN Put(cleared, "camera_photo_captured", FALSE)
                  ELSE cleared
    IN DelAll(camera, <<"photo">>)

\* if st.button("Retry Analysis"): ... up to st.rerun()
RetryAnalysis(session) ==
    LET paged == Put(session, "current_page", "upload")
        cleared == DelAll(paged, <<"detected_hand", "selected_cards", "player_hand",
                                   "community_cards", "decision_result", "player_stack",
                                   "pot_size", "amount_to_call", "min_raise",
                                   "strategy_profile", "opponent_notes",
                                   "detected_cards", "num_opponents">>)
        camera == IF cleared.camera_photo_captured.in
                  THEN Put(cleared, "camera_photo_captured", FALSE)
                  ELSE cleared
    IN DelAll(camera, <<"photo">>)

\* the game context widgets: each value is stored under its key
GameContext(session, w) ==
    [session EXCEPT !.player_stack = In(w.player_stack),
                    !.pot_size = In(w.pot_size),
                    !.amount_to_call = In(w.amount_to_call),
                    !.min_raise = In(w.min_raise),
                    !.num_opponents = In(w.num_opponents),
                    !.strategy_profile = In(w.strategy_profile),
                    !.opponent_notes = In(w.opponent_notes)]

\* DecisionContext(pot_to_call=..., min_raise=..., strategy_profile=...,
\* num_opponents=..., notes=...), equity_samples left at its default
ContextOf(w) ==
    DecisionContext(IF w.amount_to_call # 0 THEN Some(w.amount_to_call) ELSE None,
                    IF w.min_raise # 0 THEN Some(w.min_raise) ELSE None,
                    w.strategy_profile, DefaultTrials, w.num_opponents)

\* engine.recommend_action(game_state, context)
ResultOf(game_state, context) ==
    [kind |-> "result", state |-> game_state, context |-> context]

\* if st.button("Get Recommendation"): ...
GetRecommendation(session, w) ==
    LET cards == IF session.community_cards.in THEN session.community_cards.v ELSE <<>>
        hand == session.player_hand.v
        community == [cards |-> cards]
    IN IF ~session.player_hand.in
       THEN Handled(session, "Please confirm your hand first.", {})
       ELSE IF ~CommunityOk(cards)
            THEN Handled(session, "ValueError", {})
       ELSE IF ~PokerGameStateOk(hand, community, w.player_stack, w.pot_size)
            THEN Handled(session, "ValueError", {})
       ELSE Handled(Put(session, "decision_result",
                        ResultOf(PokerGameState(hand, community, w.player_stack, w.pot_size),
                                 ContextOf(w))),
                    "", {"Recommendation ready!"})

\* the hands the multiselect hands back: the first n cards of the deck, and
\* a second pair
SelectedLists == {Run(0, n) : n \in 0..MaxSelected} \cup {Run(4, 2)}

\* the boards: none, and a flop that shares a card with the first pair and
\* none with the second
BoardLists == {<<>>, Run(1, 3)}

\* random.sample(deck, 2), two of the outcomes
RandomHands == {[cards |-> Run(0, 2)], [cards |-> Run(7, 2)]}

PotSizes == {0, 50}

\* the values of the widgets in a run
Widgets(selected, board, pot) ==
    [selected |-> selected, community |-> board, player_stack |-> 1000,
     pot_size |-> pot, amount_to_call |-> 10, min_raise |-> 25,
     num_opponents |-> 1, strategy_profile |-> "balanced", opponent_notes |-> ""]

Buttons == {"", "confirm", "retry", "recommend"}

\* app.py: if 'current_page' not in st.session_state: ... = None
SessionInit ==
    /\ NotSessionIdle
    /\ s_session = Put(EmptySession, "current_page", "None")
    /\ s_run = NoRun

\* app.py: the button "Upload Page"
OpenUpload ==
    /\ s_session.current_page.v = "None"
    /\ s_session' = Put(s_session, "current_page", "upload")
    /\ s_run' = NoRun
    /\ UNCHANGED notSessionVars

\* app.py: the button "Confirmation Page"
OpenConfirmation ==
    /\ s_session.current_page.v = "None"
    /\ s_session' = Put(s_session, "current_page", "confirmation")
    /\ s_run' = NoRun
    /\ UNCHANGED notSessionVars

\* app.py: the button "Back" of the upload page
Back ==
    /\ s_session.current_page.v = "upload"
    /\ s_session' = Put(s_session, "current_page", "None")
    /\ s_run' = NoRun
    /\ UNCHANGED notSessionVars

\* show_upload_page: a photo is uploaded, or captured, or "Take Another
\* Photo" is pressed; detections_to_cards finds no card, parse_card_label
\* returning None for every label
ShowUploadPage ==
    /\ s_session.current_page.v = "upload"
    /\ \E did \in {"upload", "capture", "another"} :
          LET uploaded == IF did = "upload"
                          THEN Del(Put(s_session, "photo", "photo"), "detected_cards")
                          ELSE s_session
              camera == IF uploaded.camera_photo_captured.in THEN uploaded
                        ELSE Put(uploaded, "camera_photo_captured", FALSE)
          IN /\ did = "capture" => ~camera.camera_photo_captured.v
             /\ did = "another" => camera.camera_photo_captured.v
             /\ s_session' =
                  IF did = "capture"
                  THEN Put(Put(camera, "photo", "photo"), "camera_photo_captured", TRUE)
                  ELSE IF did = "another"
                  THEN Put(camera, "camera_photo_captured", FALSE)
                  ELSE camera
    /\ s_run' = NoRun
    /\ UNCHANGED notSessionVars

\* what the run shows, when it is not cut short by st.rerun()
Shown(run, handled) ==
    [run EXCEPT !.error = handled.error,
                !.toasts = handled.toasts,
                !.displayed = handled.session.decision_result.v]

\* show_confirmation_page from the game context widgets on
ContextAndRecommendation(confirmed, w, button) ==
    IF button = "recommend"
    THEN GetRecommendation(GameContext(confirmed.session, w), w)
    ELSE Handled(GameContext(confirmed.session, w), confirmed.error, confirmed.toasts)

\* show_confirmation_page down to the two buttons
SelectionAndConfirm(session, w, button, random_hand) ==
    LET selects == Put(Put(DetectHand(session, random_hand), "selected_cards", w.selected),
                       "community_cards", w.community)
    IN IF button = "confirm" THEN ConfirmHand(selects, w.selected)
       ELSE Handled(selects, "", {})

\* one run of show_confirmation_page
ShowConfirmationPage ==
    /\ s_session.current_page.v = "confirmation"
    /\ \E selected \in SelectedLists, board \in BoardLists, pot \in PotSizes,
          button \in Buttons,
          random_hand \in IF s_session.detected_hand.in THEN {[cards |-> <<>>]} ELSE RandomHands :
          \E w \in {Widgets(selected, board, pot)} :
          \E run \in {[button |-> button, selected |-> selected, error |-> "",
                       toasts |-> {}, displayed |-> NoRecommendation, reruns |-> 0,
                       hand_before |-> s_session.player_hand,
                       result_before |-> s_session.decision_result.in]} :
          \E confirmed \in {SelectionAndConfirm(s_session, w, button, random_hand)} :
             IF button = "retry"
             THEN /\ s_session' = RetryAnalysis(confirmed.session)
                  /\ s_run' = [run EXCEPT !.reruns = 1]
             ELSE \E handled \in {ContextAndRecommendation(confirmed, w, button)} :
                  /\ s_session' = handled.session
                  /\ s_run' = Shown(run, handled)
    /\ UNCHANGED notSessionVars

SessionNext ==
    \/ OpenUpload
    \/ OpenConfirmation
    \/ Back
    \/ ShowUploadPage
    \/ ShowConfirmationPage

SessionSpec == SessionInit /\ [][SessionNext]_vars

\* C26: pressing Confirm Hand stores a player_hand in the session iff
\* exactly 2 cards are selected, and then the stored hand consists of those
\* 2 cards; with 0, 1, 3 or more selected cards an error is reported, no
\* success toast is shown and player_hand is neither created nor changed.
C26_ConfirmNeedsTwoCards ==
    s_run.button = "confirm" =>
        IF Len(s_run.selected) = 2
        THEN /\ s_session.player_hand.in
             /\ s_session.player_hand.v.cards = s_run.selected
             /\ s_run.error = ""
        ELSE /\ s_run.error # ""
             /\ "Hand confirmed successfully!" \notin s_run.toasts
             /\ s_session.player_hand = s_run.hand_before

\* Confirm Hand pressed with three cards selected while a hand is stored:
\* an error, and the stored hand stays
C26_Witness ==
    /\ s_run.button = "confirm"
    /\ Len(s_run.selected) = 3
    /\ s_run.error # ""
    /\ s_run.hand_before.in
    /\ s_session.player_hand = s_run.hand_before

\* Confirm Hand pressed with two cards selected replaces the stored hand
C26_WitnessStored ==
    /\ s_run.button = "confirm"
    /\ Len(s_run.selected) = 2
    /\ s_run.hand_before.in
    /\ s_run.hand_before.v.cards # s_run.selected
    /\ s_session.player_hand.v.cards = s_run.selected
    /\ "Hand confirmed successfully!" \in s_run.toasts

\* C27: pressing Retry Analysis, from any session state, leaves
\* current_page = 'upload', removes detected_hand, selected_cards,
\* player_hand, photo, the community cards, the game-context inputs and any
\* decision_result from the session, leaves camera_photo_captured not true,
\* and triggers exactly one rerun.
C27_RetryClearsSession ==
    s_run.button = "retry" =>
        /\ s_session.current_page = In("upload")
        /\ \A key \in {"detected_hand", "selected_cards", "player_hand", "photo",
                       "community_cards", "player_stack", "pot_size",
                       "amount_to_call", "min_raise", "num_opponents",
                       "strategy_profile", "opponent_notes", "decision_result"} :
               ~s_session[key].in
        /\ ~(s_session.camera_photo_captured.in /\ s_session.camera_photo_captured.v)
        /\ s_run.reruns = 1

\* Retry Analysis pressed while a recommendation and a hand are stored and
\* the camera key is present
C27_Witness ==
    /\ s_run.button = "retry"
    /\ s_run.result_before
    /\ s_run.hand_before.in
    /\ s_session.camera_photo_captured.in
    /\ ~s_session.decision_result.in
    /\ s_run.reruns = 1

\* Retry Analysis pressed on a session without hand, recommendation or
\* camera key
C27_WitnessMissingKeys ==
    /\ s_run.button = "retry"
    /\ ~s_run.result_before
    /\ ~s_run.hand_before.in
    /\ ~s_session.camera_photo_captured.in
    /\ s_session.current_page = In("upload")

\* the game state and the context that the values now in the session make
CurrentInputs ==
    ResultOf(PokerGameState(s_session.player_hand.v,
                            [cards |-> s_session.community_cards.v],
                            s_session.player_stack.v, s_session.pot_size.v),
             ContextOf([amount_to_call |-> s_session.amount_to_call.v,
                        min_raise |-> s_session.min_raise.v,
                        strategy_profile |-> s_session.strategy_profile.v,
                        num_opponents |-> s_session.num_opponents.v]))

\* C30: a decision_result is in the session only if a player_hand is, a
\* decision_result that is displayed was computed from the player_hand,
\* community cards and game-context values now in the session, and a
\* recommendation attempt that fails validation leaves no decision_result
\* on display.
C30_RecommendationIsCurrent ==
    /\ s_session.decision_result.in => s_session.player_hand.in
    /\ s_run.displayed # NoRecommendation => s_run.displayed = CurrentInputs
    /\ s_run.error = "ValueError" => s_run.displayed = NoRecommendation

\* ------------------------------------------------------------------------
\* The engine called again and again on one game state
\* ------------------------------------------------------------------------

\* calls made in a row on the same PokerGameState
MaxCalls == 3

\* the game states the caller holds: one deal, pre-flop, on the turn and on
\* the river
CallerStates ==
    { PokerGameState([cards |-> <<Dealt(0, 1), Dealt(0, 2)>>],
                     [cards |-> [i \in 1..b |-> Dealt(0, i + 2)]], 100, 10) :
          b \in {0, 4, 5} }

\* what a call leaves alone outside its own frame and the caller
farVars == <<evalVars, wholeVars, policyVars, modelVars, parseVars, sessionVars>>

besideEquityVars == <<farVars, madeVars, decisionVars>>

besideMadeVars == <<farVars, equityVars, decisionVars>>

besideDecisionVars == <<farVars, equityVars, madeVars>>

\* a call that ran in exhaustive mode, its arguments after state and its result
SeenCall(fn, n, t, result) == [fn |-> fn, n |-> n, t |-> t, result |-> result]

\* the same call with the same arguments is among the calls seen
SeenBefore(fn, n, t) == \E c \in a_seen : c.fn = fn /\ c.n = n /\ c.t = t

CallsInit ==
    /\ EngineIdle /\ ModelIdle /\ ParseIdle /\ SessionIdle
    /\ a_state \in CallerStates
    /\ HandOk(a_state.player_hand.cards)
    /\ CommunityOk(a_state.community.cards)
    /\ PokerGameStateOk(a_state.player_hand, a_state.community,
                        a_state.player_chips, a_state.pot_size)
    /\ a_given = a_state
    /\ a_pc = "idle"
    /\ a_calls = 0
    /\ a_seen = {}
    /\ a_repeat = FALSE
    /\ a_last = NoObject

\* estimate_equity(state, opponents, trials): the parameters are bound, state
\* to the caller's object
CallEstimateEquity ==
    /\ a_pc = "idle"
    /\ a_calls < MaxCalls
    /\ \E opponents \in {0, DefaultOpponents, MaxOpponents}, trials \in {1, MaxTrials} :
          /\ \/ opponents < 1
             \/ cards_needed(a_state, opponents) > Len(remaining(a_state))
             \/ run_all(a_state, opponents, trials)
             \/ SampledInScope(a_state, opponents, trials)
          /\ q_opponents' = opponents
          /\ q_trials' = trials
    /\ q_state' = a_state
    /\ q_pc' = "call"
    /\ a_pc' = "estimate_equity"
    /\ UNCHANGED <<besideEquityVars, a_state, a_given, a_calls, a_seen, a_repeat, a_last,
                   q_run_all, q_done, q_wins, q_ties, q_scenario, q_estimate>>

\* estimate_equity has returned or raised: the caller has its state object
\* back as the call left it, and the frame is gone
EstimateEquityEnds ==
    /\ a_pc = "estimate_equity"
    /\ q_pc \in {"done", "failed"}
    /\ a_state' = q_state
    /\ a_calls' = a_calls + 1
    /\ IF q_pc = "done" /\ q_run_all
       THEN /\ a_seen' = a_seen \cup {SeenCall("estimate_equity", q_opponents, q_trials,
                                               q_estimate)}
            /\ a_repeat' = (a_repeat \/ SeenBefore("estimate_equity", q_opponents, q_trials))
       ELSE UNCHANGED <<a_seen, a_repeat>>
    /\ a_last' = [fn |-> "estimate_equity", raised |-> (q_pc = "failed")]
    /\ a_pc' = "idle"
    /\ q_state' = PokerGameState([cards |-> <<>>], [cards |-> <<>>], 0, 0)
    /\ q_opponents' = 0
    /\ q_trials' = 0
    /\ q_pc' = "idle"
    /\ q_run_all' = FALSE
    /\ q_done' = 0
    /\ q_wins' = 0
    /\ q_ties' = 0
    /\ q_scenario' = NoScenario
    /\ q_estimate' = NoEstimate
    /\ UNCHANGED <<besideEquityVars, a_given>>

\* describe_made_hand(state.player_hand, state.community, samples)
CallDescribeMadeHand ==
    /\ a_pc = "idle"
    /\ a_calls < MaxCalls
    /\ \E samples \in {1, MaxPercentileSamples} :
          /\ \/ too_few_cards(total_cards(a_state.player_hand, a_state.community))
             \/ percentile_total_combos(a_state.player_hand, a_state.community) <= samples
             \/ samples <= MaxSampled
          /\ m_samples' = samples
    /\ m_hand' = a_state.player_hand
    /\ m_community' = a_state.community
    /\ m_pc' = "call"
    /\ a_pc' = "describe_made_hand"
    /\ UNCHANGED <<besideMadeVars, a_state, a_given, a_calls, a_seen, a_repeat, a_last,
                   m_score, m_run_all, m_done, m_better, m_ties, m_opp, m_result>>

\* describe_made_hand has returned
DescribeMadeHandEnds ==
    /\ a_pc = "describe_made_hand"
    /\ m_pc = "done"
    /\ a_state' = [a_state EXCEPT !.player_hand = m_hand, !.community = m_community]
    /\ a_calls' = a_calls + 1
    /\ IF m_run_all
       THEN /\ a_seen' = a_seen \cup {SeenCall("describe_made_hand", 0, m_samples, m_result)}
            /\ a_repeat' = (a_repeat \/ SeenBefore("describe_made_hand", 0, m_samples))
       ELSE UNCHANGED <<a_seen, a_repeat>>
    /\ a_last' = [fn |-> "describe_made_hand", raised |-> FALSE]
    /\ a_pc' = "idle"
    /\ m_hand' = [cards |-> <<>>]
    /\ m_community' = [cards |-> <<>>]
    /\ m_samples' = 0
    /\ m_pc' = "idle"
    /\ m_score' = NoScore
    /\ m_run_all' = FALSE
    /\ m_done' = 0
    /\ m_better' = 0
    /\ m_ties' = 0
    /\ m_opp' = NoCombo
    /\ m_result' = NoDetails
    /\ UNCHANGED <<besideMadeVars, a_given>>

\* engine.recommend_action(state, context)
CallRecommendAction ==
    /\ a_pc = "idle"
    /\ a_calls < MaxCalls
    /\ \E num_opponents \in {0, DefaultOpponents, ManyOpponents} :
          d_context' = DecisionContext(None, None, "balanced", DefaultTrials, num_opponents)
    /\ d_state' = a_state
    /\ d_pc' = "call"
    /\ a_pc' = "recommend_action"
    /\ UNCHANGED <<besideDecisionVars, a_state, a_given, a_calls, a_seen, a_repeat, a_last,
                   d_call, d_equity_info, d_strength, d_result>>

\* recommend_action has returned
RecommendActionEnds ==
    /\ a_pc = "recommend_action"
    /\ d_pc = "done"
    /\ a_state' = d_state
    /\ a_calls' = a_calls + 1
    /\ a_last' = [fn |-> "recommend_action", raised |-> (d_result.kind # "result")]
    /\ a_pc' = "idle"
    /\ d_state' = PokerGameState([cards |-> <<>>], [cards |-> <<>>], 0, 0)
    /\ d_context' = DecisionContext(None, None, "", 0, 0)
    /\ d_pc' = "idle"
    /\ d_call' = NoCall
    /\ d_equity_info' = NoEstimate
    /\ d_strength' = NoFloat
    /\ d_result' = NoResult
    /\ UNCHANGED <<besideDecisionVars, a_given, a_seen, a_repeat>>

CallsNext ==
    \/ CallEstimateEquity \/ RaiseOpponents \/ RaiseCards \/ BeginLoop
    \/ ScenarioExhaustive \/ ScenarioSampled \/ Count \/ ReturnEstimate
    \/ EstimateEquityEnds
    \/ CallDescribeMadeHand \/ MadeReturnNone \/ MadeBegin \/ MadeEnumerated
    \/ MadeSampled \/ MadeCount \/ MadeReturn \/ DescribeMadeHandEnds
    \/ CallRecommendAction \/ DecisionEstimate \/ DecisionFallback \/ DecisionReturn
    \/ RecommendActionEnds

\* sequences of calls of the three functions on one game state
CallsSpec == CallsInit /\ [][CallsNext]_vars

C25_WitnessRaised ==
    /\ a_pc = "idle"
    /\ a_calls = MaxCalls
    /\ Cardinality(a_seen) = 2
    /\ a_last = [fn |-> "estimate_equity", raised |-> TRUE]

====
